---------------------------- MODULE Spec2Model ----------------------------
(* A model of kash.py: the Cluster's schema caches and codec dispatch, its  *)
(* consumer wrapper (subscribe / consume / commit / unsubscribe) and the    *)
(* three consume loops built on it (replicate, fold, download).             *)
(*                                                                          *)
(* The module holds several specifications over one set of variables:       *)
(*   SpecCache    decode and produce calls against the three schema caches  *)
(*   SpecConsumer subscribe / consume / commit / unsubscribe called in any   *)
(*                order on one Cluster, against a topic of one or two        *)
(*                partitions and the group's committed offsets               *)
(*   SpecRun      one run of replicate, fold or download, step by step      *)
(*   FairSpecRun  SpecRun with the fairness of a running Python process     *)
(* Each specification leaves the variables of the other parts unchanged.    *)
EXTENDS Integers, Sequences, FiniteSets, TLC

\* ---------------------------------------------------------------- bounds
\* Longest source topic (messages available to one run).
MaxLog == 3
\* Largest batch_size a run is started with.
MaxBatch == 2
\* Largest message budget n a run is started with.
MaxBudget == 3

\* Largest schema id the registry holds.
MaxSchemaId == 2
\* Longest sequence of decode and produce calls on one Cluster.
MaxCacheOps == 3

\* Largest progress_num_messages of a run.
MaxProgress == 2
\* Characters of the files upload reads.
MaxFileLen == 6
\* Messages held by each partition of the topic a consumer subscribes to.
LogEnd == 3
\* Calls of subscribe on one Cluster whose topic has two partitions.
MaxSubscribes == 1
\* Calls of subscribe on one Cluster whose topic has one partition.
MaxResubscribes == 2
\* Largest flush_num_messages a producer is set to, the default apart.
MaxFlushNum == 2
\* Largest bufsize foreach_line reads with, the default apart.
MaxBufsize == 3

\* ------------------------------------------------------------- constants
ALL_MESSAGES == -1
TIMESTAMP_CREATE_TIME == 1
OFFSET_INVALID == -1001
FlushNumMessagesDefault == 10000
DefaultBufsize == 4096

None == "None"
\* A local variable: <<FALSE, 0>> while no statement has assigned it, <<TRUE, v>> after.
Unbound == <<FALSE, 0>>
Bound(v) == <<TRUE, v>>

\* Partitions of the topic a run or a consumer reads.
Partitions == {0, 1}
\* Timestamp types of a broker message: create time, and one that is not.
TimestampTypes == {TIMESTAMP_CREATE_TIME, TIMESTAMP_CREATE_TIME + 1}

Min(a, b) == IF a <= b THEN a ELSE b

VARIABLES
    \* --- Cluster fields shared by the loops and the consumer wrapper
    subscribed_topic_str,      \* Cluster.subscribed_topic_str
    last_consumed_message,     \* Cluster.last_consumed_message
    \* --- one run of replicate / fold / download
    op,                        \* which loop runs: "replicate", "fold", "download"
    num_messages_int,          \* n
    batch_size_int,            \* batch_size
    keep_timestamps_bool,      \* keep_timestamps (replicate)
    transform_function,        \* transform (replicate): None, or which function
    key_type_str,              \* key_type
    value_type_str,            \* value_type
    verbose_int,               \* verbose
    progress_num_messages_int, \* progress_num_messages
    source,                    \* the messages the source consumer will deliver, in order
    position,                  \* how many of them the consumer has delivered
    pc,                        \* where the run is
    message_dict_list,         \* the batch being processed
    idx,                       \* 1-based index of the next record of the batch
    message_counter_int,       \* message_counter_int
    timestamp_int,             \* replicate's local timestamp_int (Unbound until assigned)
    produced,                  \* what replicate handed to target_cluster.produce, in order
    acc_list,                  \* fold's acc_list
    acc_list1,                 \* fold's per-batch acc_list1
    fold_function,             \* the function fold is called with
    foreach_calls,             \* the messages foreach_function was called with
    output_str_list,           \* download's per-batch output_str_list
    file_lines,                \* what download wrote to the file
    \* --- history of the run (not read by the program)
    consume_calls,             \* calls of consumer.consume
    empty_batches,             \* how many of them returned no message
    prev_counter,              \* message_counter_int before the last batch was counted
    processed,                 \* loop bodies completed
    flush_calls,               \* calls of target_cluster.flush
    unsubscribe_calls,         \* calls of Cluster.unsubscribe
    error,                     \* None, or where the run raised
    reports,                   \* the counts the run printed as progress, in order
    \* --- the schema caches of one Cluster
    schema_id_int_generalizedProtocolMessageType_protobuf_schema_str_tuple_dict,
    schema_id_int_avro_schema_str_dict,
    schema_id_int_jsonschema_str_dict,
    last_consumed_message_key_schema_str,
    last_consumed_message_value_schema_str,
    \* --- history of the caches (not read by the program)
    get_schema_calls,          \* per decoder and schema id: calls of get_schema
    failed_resolutions,        \* per decoder and schema id: resolutions that raised
    protoc_calls,              \* per schema id: .proto written and protoc invoked
    last_call,                 \* the last decode or produce call and how it went
    cache_ops,                 \* decode and produce calls made so far
    \* --- the consumer side of one Cluster
    config_dict,               \* Cluster.config_dict
    auto_commit_bool,          \* Cluster.auto_commit_bool
    auto_offset_reset_str,     \* Cluster.auto_offset_reset_str
    consumer_id,               \* 0: no self.consumer yet; k: the k-th Consumer created
    consumer_config,           \* the configuration self.consumer was built with
    consumer_offsets_dict,     \* offsets_dict captured by its on_assign callback
    consumer_state,            \* "none", "subscribed", "assigned", "failed", "unsubscribed"
    consumer_assignment,       \* the partitions list its on_assign received
    consumer_position,         \* per partition: the offset it delivers next
    \* --- the broker
    num_partitions,            \* partitions of the subscribed topic
    committed,                 \* per group and partition: the committed offset
    \* --- history of the consumer side (not read by the program)
    first_consumed,            \* per partition: first offset this consumer delivered
    reset_start,               \* per partition: where it starts without explicit offsets
    last_batch,                \* the last non-empty batch consumer.consume delivered
    requested_auto_commit,     \* enable.auto.commit as the last subscribe asked for it
    consumer_commits,          \* whether commit() was called on the current consumer
    last_consume,              \* how the latest Cluster.consume call went, and a bit
    last_consumed_by,          \* the consumer that delivered last_consumed_message (0: none)
    commit_call,               \* the last commit(): whose message, passed to which consumer
    live_consumers,            \* the consumers of this Cluster with a subscription not released
    subscribe_config,          \* the config argument of the last subscribe
                               \* that flips with every call
    \* --- single calls of the codec (history, not read by the program)
    produce_call,              \* the last Cluster.produce call and what the producer got
    decode_call,               \* the last message_to_message_dict call and its outcome
    \* --- a file copied to a topic and back
    file_str,                  \* the text of the file upload reads
    key_value_separator_str,   \* key_value_separator of upload and download
    topic,                     \* the messages of the topic, in order
    downloaded_str,            \* the text download wrote
    copy_pc,                   \* "start", "uploaded", "downloaded" or "raised"
    \* a call of foreach_line on file_str
    delimiter_str,
    bufsize_int,
    foreach_line_call,         \* the strings it passed to proc_function
    \* the producer side of a Cluster
    produced_messages_int,
    flush_num_messages_int,
    producer_queue_len,        \* messages handed to the producer since its last flush
    producer_flushes           \* the producer.flush calls: who called, and the counter then

clusterVars == <<subscribed_topic_str, last_consumed_message>>
paramVars == <<op, num_messages_int, batch_size_int, keep_timestamps_bool,
               transform_function, key_type_str, value_type_str, verbose_int,
               progress_num_messages_int, source, fold_function>>
loopVars == <<position, pc, message_dict_list, idx, message_counter_int, timestamp_int>>
sinkVars == <<produced, acc_list, acc_list1, output_str_list, file_lines, foreach_calls>>
histVars == <<consume_calls, empty_batches, prev_counter, processed, flush_calls,
              unsubscribe_calls, error, reports>>
runVars == <<paramVars, loopVars, sinkVars, histVars>>
dictVars == <<schema_id_int_generalizedProtocolMessageType_protobuf_schema_str_tuple_dict,
              schema_id_int_avro_schema_str_dict, schema_id_int_jsonschema_str_dict>>
lastSchemaVars == <<last_consumed_message_key_schema_str,
                    last_consumed_message_value_schema_str>>
cacheHistVars == <<get_schema_calls, failed_resolutions, protoc_calls, last_call, cache_ops>>
cacheVars == <<dictVars, lastSchemaVars, cacheHistVars>>
settingVars == <<config_dict, auto_commit_bool, auto_offset_reset_str>>
consumerVars == <<consumer_id, consumer_config, consumer_offsets_dict, consumer_state,
                  consumer_assignment, consumer_position>>
brokerVars == <<num_partitions, committed>>
consHistVars == <<first_consumed, reset_start, last_batch, requested_auto_commit,
                  consumer_commits, last_consume, last_consumed_by, commit_call,
                  live_consumers, subscribe_config>>
consVars == <<settingVars, consumerVars, brokerVars, consHistVars>>
codecVars == <<produce_call, decode_call>>
lineVars == <<delimiter_str, bufsize_int, foreach_line_call>>
copyVars == <<file_str, key_value_separator_str, topic, downloaded_str, copy_pc, lineVars>>
producerVars == <<produced_messages_int, flush_num_messages_int, producer_queue_len,
                 producer_flushes>>
ioVars == <<codecVars, copyVars, producerVars>>
vars == <<clusterVars, runVars, cacheVars, consVars, ioVars>>

\* Cluster.__init__: the consumer-side fields.
\* Group ids: the one group callers name, and the ids create_unique_group_id gives
\* (the clock in milliseconds, here the number of the subscribe call).
NamedGroup == <<"group">>
create_unique_group_id(k) == <<"millis", k>>
GroupIds ==
    {NamedGroup} \cup {create_unique_group_id(k) : k \in 1..(MaxSubscribes + MaxResubscribes)}

\* The consumer side of a Cluster after construction, no message committed yet.
InitConsumer ==
    /\ config_dict = [k \in {"bootstrap.servers"} |-> "localhost:9092"]
    /\ auto_commit_bool = TRUE
    /\ auto_offset_reset_str = "earliest"
    /\ consumer_id = 0
    /\ consumer_config = <<>>
    /\ consumer_offsets_dict = <<>>
    /\ consumer_state = "none"
    /\ consumer_assignment = <<>>
    /\ consumer_position = [p \in Partitions |-> 0]
    /\ committed = [g \in GroupIds |-> [p \in Partitions |-> OFFSET_INVALID]]
    /\ first_consumed = [p \in Partitions |-> -1]
    /\ reset_start = [p \in Partitions |-> -1]
    /\ last_batch = <<>>
    /\ requested_auto_commit = TRUE
    /\ consumer_commits = FALSE
    /\ last_consume = <<"no call", 0>>
    /\ last_consumed_by = 0
    /\ commit_call = [made |-> FALSE, message_by |-> 0, consumer |-> 0]
    /\ live_consumers = {}
    /\ subscribe_config = <<>>

InitCluster ==
    /\ subscribed_topic_str = None
    /\ last_consumed_message = <<>>

\* ------------------------------------------------------ the schema caches

SchemaIds == 1..MaxSchemaId
Decoders == {"protobuf", "avro", "jsonschema"}

\* The registry: the schema text stored under an id, and the id post_schema returns
\* for a text (normalize=true: a text already registered keeps its id).
RegistrySchemaStr(schema_id_int) == <<"schema", schema_id_int>>
post_schema(schema_str) == schema_str[2]

\* A schema-backed payload: the magic byte, the 4-byte big-endian schema id, a body.
Payload(schema_id_int) ==
    <<0, (schema_id_int \div 16777216) % 256, (schema_id_int \div 65536) % 256,
      (schema_id_int \div 256) % 256, schema_id_int % 256, "body">>
\* int.from_bytes(bytes[1:5], "big")
SchemaIdOf(bytes) ==
    bytes[2] * 16777216 + bytes[3] * 65536 + bytes[4] * 256 + bytes[5]

\* What importing the module protoc generated for schema_<id>.proto gives.
GeneralizedProtocolMessageType(schema_id_int) == <<"Type", schema_id_int>>

\* DictPut on a dict that is started afresh: the earlier entries are dropped.
DictPut_Fresh(dict, key, value) == [k \in {key} |-> value]

\* dict[key] = value
DictPut(dict, key, value) ==
    [k \in DOMAIN dict \cup {key} |-> IF k = key THEN value ELSE dict[k]]

\* CacheHit with the membership test lost: every decode resolves again.
CacheHit_Never(dict, schema_id_int) == FALSE

\* `if schema_id_int in self.<dict>`
CacheHit(dict, schema_id_int) == schema_id_int \in DOMAIN dict

Bump(counts, d, i) == [counts EXCEPT ![d][i] = @ + 1]

InitCache ==
    /\ schema_id_int_generalizedProtocolMessageType_protobuf_schema_str_tuple_dict = <<>>
    /\ schema_id_int_avro_schema_str_dict = <<>>
    /\ schema_id_int_jsonschema_str_dict = <<>>
    /\ last_consumed_message_key_schema_str = None
    /\ last_consumed_message_value_schema_str = None
    /\ get_schema_calls = [d \in Decoders |-> [i \in SchemaIds |-> 0]]
    /\ failed_resolutions = [d \in Decoders |-> [i \in SchemaIds |-> 0]]
    /\ protoc_calls = [i \in SchemaIds |-> 0]
    /\ last_call = <<"none">>
    /\ cache_ops = 0

\* The tail of the three decoders: remember the schema text for the key or the value.
SetLastSchema(key_bool, schema_str) ==
    /\ last_consumed_message_key_schema_str' =
           IF key_bool THEN schema_str ELSE last_consumed_message_key_schema_str
    /\ last_consumed_message_value_schema_str' =
           IF key_bool THEN last_consumed_message_value_schema_str ELSE schema_str

\* Cluster.bytes_protobuf_to_dict(bytes, key_bool). On a miss it calls get_schema,
\* then writes schema_<id>.proto and runs protoc; either may raise, and then nothing
\* is cached.
bytes_protobuf_to_dict ==
    /\ cache_ops < MaxCacheOps
    /\ \E schema_id \in SchemaIds, key_bool \in BOOLEAN,
          outcome \in {"ok", "get_schema raises", "protoc raises"} :
        LET bytes == Payload(schema_id)
            schema_id_int == SchemaIdOf(bytes)
            dict == schema_id_int_generalizedProtocolMessageType_protobuf_schema_str_tuple_dict
            hit == CacheHit(dict, schema_id_int)
            fetched == ~hit
            compiled == ~hit /\ outcome # "get_schema raises"
            tuple == IF hit THEN dict[schema_id_int]
                     ELSE <<GeneralizedProtocolMessageType(schema_id_int),
                            RegistrySchemaStr(schema_id_int)>>
        IN
        /\ hit => outcome = "ok"
        /\ cache_ops' = cache_ops + 1
        /\ last_call' = <<"protobuf", schema_id_int, hit, outcome>>
        /\ get_schema_calls' = IF fetched
                               THEN Bump(get_schema_calls, "protobuf", schema_id_int)
                               ELSE get_schema_calls
        /\ protoc_calls' = IF compiled THEN [protoc_calls EXCEPT ![schema_id_int] = @ + 1]
                           ELSE protoc_calls
        /\ IF outcome = "ok"
           THEN /\ schema_id_int_generalizedProtocolMessageType_protobuf_schema_str_tuple_dict' =
                       IF hit THEN dict ELSE DictPut(dict, schema_id_int, tuple)
                /\ SetLastSchema(key_bool, tuple[2])
                /\ UNCHANGED failed_resolutions
           ELSE /\ failed_resolutions' = Bump(failed_resolutions, "protobuf", schema_id_int)
                /\ UNCHANGED <<schema_id_int_generalizedProtocolMessageType_protobuf_schema_str_tuple_dict,
                               lastSchemaVars>>
    /\ UNCHANGED <<schema_id_int_avro_schema_str_dict, schema_id_int_jsonschema_str_dict>>
    /\ UNCHANGED <<clusterVars, runVars, consVars, ioVars>>

\* Cluster.bytes_avro_to_dict(bytes, key_bool).
bytes_avro_to_dict ==
    /\ cache_ops < MaxCacheOps
    /\ \E schema_id \in SchemaIds, key_bool \in BOOLEAN,
          outcome \in {"ok", "get_schema raises"} :
        LET bytes == Payload(schema_id)
            schema_id_int == SchemaIdOf(bytes)
            dict == schema_id_int_avro_schema_str_dict
            hit == CacheHit(dict, schema_id_int)
            avro_schema_str == IF hit THEN dict[schema_id_int]
                               ELSE RegistrySchemaStr(schema_id_int)
        IN
        /\ hit => outcome = "ok"
        /\ cache_ops' = cache_ops + 1
        /\ last_call' = <<"avro", schema_id_int, hit, outcome>>
        /\ get_schema_calls' = IF ~hit THEN Bump(get_schema_calls, "avro", schema_id_int)
                               ELSE get_schema_calls
        /\ IF outcome = "ok"
           THEN /\ schema_id_int_avro_schema_str_dict' =
                       IF hit THEN dict ELSE DictPut(dict, schema_id_int, avro_schema_str)
                /\ SetLastSchema(key_bool, avro_schema_str)
                /\ UNCHANGED failed_resolutions
           ELSE /\ failed_resolutions' = Bump(failed_resolutions, "avro", schema_id_int)
                /\ UNCHANGED <<schema_id_int_avro_schema_str_dict, lastSchemaVars>>
    /\ UNCHANGED <<schema_id_int_generalizedProtocolMessageType_protobuf_schema_str_tuple_dict,
                   schema_id_int_jsonschema_str_dict, protoc_calls>>
    /\ UNCHANGED <<clusterVars, runVars, consVars, ioVars>>

\* Cluster.bytes_jsonschema_to_dict(bytes, key_bool).
bytes_jsonschema_to_dict ==
    /\ cache_ops < MaxCacheOps
    /\ \E schema_id \in SchemaIds, key_bool \in BOOLEAN,
          outcome \in {"ok", "get_schema raises"} :
        LET bytes == Payload(schema_id)
            schema_id_int == SchemaIdOf(bytes)
            dict == schema_id_int_jsonschema_str_dict
            hit == CacheHit(dict, schema_id_int)
            jsonschema_str == IF hit THEN dict[schema_id_int]
                              ELSE RegistrySchemaStr(schema_id_int)
        IN
        /\ hit => outcome = "ok"
        /\ cache_ops' = cache_ops + 1
        /\ last_call' = <<"jsonschema", schema_id_int, hit, outcome>>
        /\ get_schema_calls' = IF ~hit
                               THEN Bump(get_schema_calls, "jsonschema", schema_id_int)
                               ELSE get_schema_calls
        /\ IF outcome = "ok"
           THEN /\ schema_id_int_jsonschema_str_dict' =
                       IF hit THEN dict ELSE DictPut(dict, schema_id_int, jsonschema_str)
                /\ SetLastSchema(key_bool, jsonschema_str)
                /\ UNCHANGED failed_resolutions
           ELSE /\ failed_resolutions' = Bump(failed_resolutions, "jsonschema", schema_id_int)
                /\ UNCHANGED <<schema_id_int_jsonschema_str_dict, lastSchemaVars>>
    /\ UNCHANGED <<schema_id_int_generalizedProtocolMessageType_protobuf_schema_str_tuple_dict,
                   schema_id_int_avro_schema_str_dict, protoc_calls>>
    /\ UNCHANGED <<clusterVars, runVars, consVars, ioVars>>

\* How often one produce call runs schema_str_to_generalizedProtocolMessageType (a
\* post_schema, then the .proto write and protoc) for schema id i: once for the key
\* and once for the value, each when its type is "pb"/"protobuf". No cache is read.
ProduceCompiles(i, key_type, value_type, key_schema_str, value_schema_str) ==
    (IF key_type = "protobuf" /\ post_schema(key_schema_str) = i THEN 1 ELSE 0)
    + (IF value_type = "protobuf" /\ post_schema(value_schema_str) = i THEN 1 ELSE 0)

\* Cluster.produce with a protobuf key or value (serialize for the key, then for
\* the value).
produce_protobuf ==
    /\ cache_ops < MaxCacheOps
    /\ \E key_type \in {"str", "protobuf"}, value_type \in {"str", "protobuf"},
          key_id \in SchemaIds, value_id \in SchemaIds :
        /\ key_type = "protobuf" \/ value_type = "protobuf"
        /\ key_type = "str" => key_id = 1
        /\ value_type = "str" => value_id = 1
        /\ cache_ops' = cache_ops + 1
        /\ last_call' = <<"produce", key_type, value_type, key_id, value_id>>
        /\ protoc_calls' =
               [i \in SchemaIds |->
                   protoc_calls[i] + ProduceCompiles(i, key_type, value_type,
                                        RegistrySchemaStr(key_id), RegistrySchemaStr(value_id))]
    /\ UNCHANGED <<dictVars, lastSchemaVars, get_schema_calls, failed_resolutions>>
    /\ UNCHANGED <<clusterVars, runVars, consVars, ioVars>>

NextCache ==
    \/ bytes_protobuf_to_dict
    \/ bytes_avro_to_dict
    \/ bytes_jsonschema_to_dict
    \/ produce_protobuf

\* A Cluster that is not running a loop: the run's variables stay as constructed.
InitIdleRun ==
    /\ op = "replicate"
    /\ num_messages_int = ALL_MESSAGES
    /\ batch_size_int = 1
    /\ keep_timestamps_bool = TRUE
    /\ transform_function = None
    /\ key_type_str = "bytes"
    /\ value_type_str = "bytes"
    /\ verbose_int = 0
    /\ progress_num_messages_int = 1
    /\ fold_function = None
    /\ source = <<>>
    /\ position = 0
    /\ pc = "idle"
    /\ message_dict_list = <<>>
    /\ idx = 1
    /\ message_counter_int = 0
    /\ timestamp_int = Unbound
    /\ produced = <<>>
    /\ acc_list = <<>>
    /\ acc_list1 = <<>>
    /\ foreach_calls = <<>>
    /\ output_str_list = <<>>
    /\ file_lines = <<>>
    /\ consume_calls = 0
    /\ empty_batches = 0
    /\ prev_counter = 0
    /\ processed = 0
    /\ flush_calls = 0
    /\ unsubscribe_calls = 0
    /\ error = None
    /\ reports = <<>>

\* No codec call made yet, no file copied.
NoCall == [made |-> FALSE]
InitIdleCodec ==
    /\ produce_call = NoCall
    /\ decode_call = NoCall

InitIdleLines ==
    /\ delimiter_str = <<"\n">>
    /\ bufsize_int = DefaultBufsize
    /\ foreach_line_call = NoCall

InitIdleCopy ==
    /\ InitIdleLines
    /\ file_str = <<>>
    /\ key_value_separator_str = None
    /\ topic = <<>>
    /\ downloaded_str = <<>>
    /\ copy_pc = "idle"

\* Cluster.__init__: the producer side, with the flush_num_messages given.
InitProducer(flush_num_messages) ==
    /\ produced_messages_int = 0
    /\ flush_num_messages_int = flush_num_messages
    /\ producer_queue_len = 0
    /\ producer_flushes = <<>>

\* The end of Cluster.produce, once self.producer.produce has taken the message:
\* the counter goes up by one and the producer is flushed at every multiple of
\* flush_num_messages_int.
FlushDue_Never(counter) == FALSE
FlushDue(counter) == counter % flush_num_messages_int = 0
CountProduced(p) ==
    LET counter == p.produced_messages_int + 1 IN
    IF FlushDue(counter)
    THEN [produced_messages_int |-> counter,
          producer_queue_len    |-> 0,
          producer_flushes      |-> Append(p.producer_flushes, <<"produce", counter>>)]
    ELSE [produced_messages_int |-> counter,
          producer_queue_len    |-> p.producer_queue_len + 1,
          producer_flushes      |-> p.producer_flushes]

\* Cluster.flush(): self.producer.flush(self.timeout_float)
flush(p) ==
    [p EXCEPT !.producer_queue_len = 0,
              !.producer_flushes = Append(@, <<"flush", p.produced_messages_int>>)]

\* The producer as it is, and the step to what a call leaves.
Producer ==
    [produced_messages_int |-> produced_messages_int,
     producer_queue_len    |-> producer_queue_len,
     producer_flushes      |-> producer_flushes]
ProducerBecomes(p) ==
    /\ produced_messages_int' = p.produced_messages_int
    /\ producer_queue_len' = p.producer_queue_len
    /\ producer_flushes' = p.producer_flushes
    /\ UNCHANGED flush_num_messages_int

InitIdleIo == InitIdleCodec /\ InitIdleCopy /\ InitProducer(FlushNumMessagesDefault)

InitSpecCache ==
    /\ InitCluster /\ InitIdleRun /\ InitCache /\ InitConsumer /\ num_partitions = 2
    /\ InitIdleIo

SpecCache == InitSpecCache /\ [][NextCache]_vars

\* ------------------------------------------------------------- the codec

\* Python values, tagged by their type: None, bytes (a sequence of byte values),
\* str (a sequence of characters), dict (a sequence of <<field, number>> items)
\* and int.
PyNone == <<"NoneType", <<>>>>
PyBytes(byte_seq) == <<"bytes", byte_seq>>
PyStr(char_seq) == <<"str", char_seq>>
PyDict(item_seq) == <<"dict", item_seq>>
PyInt(n) == <<"int", n>>
TypeOf(value) == value[1]

\* `if x:` for the values above.
Truthy(value) == value # PyNone /\ value[2] # <<>> /\ value # PyInt(0)

\* UTF-8, for the characters used here; 255 is a byte no UTF-8 text contains.
Chars == {"a", "0", "1", "{", "}", ":", " ", "\"", "/", "\n"}
Utf8Code(c) ==
    CASE c = "a" -> 97 [] c = "0" -> 48 [] c = "1" -> 49 [] c = "{" -> 123
      [] c = "}" -> 125 [] c = ":" -> 58 [] c = " " -> 32 [] c = "\"" -> 34
      [] c = "/" -> 47 [] c = "\n" -> 10
Utf8Codes == {Utf8Code(c) : c \in Chars}
Utf8Char(b) == CHOOSE c \in Chars : Utf8Code(c) = b

\* str.encode("utf-8") and bytes.decode("utf-8") on the sequences.
Utf8Encode(char_seq) == [i \in 1..Len(char_seq) |-> Utf8Code(char_seq[i])]
Utf8Decodes(byte_seq) == \A i \in 1..Len(byte_seq) : byte_seq[i] \in Utf8Codes
Utf8Decode(byte_seq) == [i \in 1..Len(byte_seq) |-> Utf8Char(byte_seq[i])]

\* The outcome of a call: a value, or an exception.
Ok(value) == <<"ok", value>>
Raises(exception) == <<"raise", exception>>

\* json.dumps(dict): '{}' or '{"a": 0}'.
Digit(n) == IF n = 0 THEN "0" ELSE "1"
json_dumps(dict) ==
    IF dict[2] = <<>> THEN PyStr(<<"{", "}">>)
    ELSE PyStr(<<"{", "\"", dict[2][1][1], "\"", ":", " ", Digit(dict[2][1][2]), "}">>)

\* json.loads(text), text a str or bytes: white space between tokens is skipped;
\* an object of at most one field and a number are understood here, every other
\* text is a JSONDecodeError; None is a TypeError.
RECURSIVE SkipSpaces(_)
SkipSpaces(char_seq) ==
    IF char_seq = <<>> THEN <<>>
    ELSE IF Head(char_seq) \in {" ", "\n"} THEN SkipSpaces(Tail(char_seq))
    ELSE <<Head(char_seq)>> \o SkipSpaces(Tail(char_seq))

JsonParse(char_seq) ==
    LET t == SkipSpaces(char_seq) IN
    IF t = <<"{", "}">> THEN Ok(PyDict(<<>>))
    ELSE IF Len(t) = 7 /\ SubSeq(t, 1, 5) = <<"{", "\"", "a", "\"", ":">>
            /\ t[6] \in {"0", "1"} /\ t[7] = "}"
    THEN Ok(PyDict(<<<<"a", IF t[6] = "0" THEN 0 ELSE 1>>>>))
    ELSE IF t = <<"0">> THEN Ok(PyInt(0))
    ELSE IF t = <<"1">> THEN Ok(PyInt(1))
    ELSE Raises("JSONDecodeError")

json_loads(text) ==
    IF TypeOf(text) = "str" THEN JsonParse(text[2])
    ELSE IF TypeOf(text) = "bytes"
    THEN IF Utf8Decodes(text[2]) THEN JsonParse(Utf8Decode(text[2]))
         ELSE Raises("UnicodeDecodeError")
    ELSE Raises("TypeError")

\* message_to_message_dict.bytes_to_str and bytes_to_bytes
bytes_to_str(bytes) ==
    IF Truthy(bytes)
    THEN IF Utf8Decodes(bytes[2]) THEN Ok(PyStr(Utf8Decode(bytes[2])))
         ELSE Raises("UnicodeDecodeError")
    ELSE Ok(bytes)

bytes_to_bytes(bytes) == Ok(bytes)

\* The format tags message_to_message_dict and produce are called with; "xml"
\* stands for every tag the code does not know.
StructuralDecoder(type_str) ==
    IF type_str \in {"pb", "protobuf"} THEN "protobuf" ELSE type_str
StructuralTags == {"pb", "protobuf", "avro", "jsonschema"}
KnownTags == {"bytes", "str", "json"} \cup StructuralTags
FormatTags == KnownTags \cup {"xml"}

\* A schema-backed payload as bytes, and the dict the library's deserializer makes
\* of its body (the body is the library's business; one body is enough here).
SchemaPayloads == {PyBytes(Payload(i)) : i \in SchemaIds}
StructuredDict == PyDict(<<<<"a", 1>>>>)

\* The if/elif chain of message_to_message_dict: the decoder a tag selects; for a
\* tag in no branch the local decode_key / decode_value is never assigned.
DecoderFor(type_str) ==
    IF type_str = "str" THEN "bytes_to_str"
    ELSE IF type_str = "bytes" THEN "bytes_to_bytes"
    ELSE IF type_str = "json" THEN "json.loads"
    ELSE IF type_str \in StructuralTags THEN StructuralDecoder(type_str)
    ELSE "unbound"

\* decode_key(message.key()) / decode_value(message.value()): the value returned,
\* or the exception. A schema-backed decoder is given the registry's answer; bytes
\* that carry no schema id the registry knows, and None, raise there.
DecodeField(type_str, bytes) ==
    LET decoder == DecoderFor(type_str) IN
    IF decoder = "unbound" THEN Raises("UnboundLocalError")
    ELSE IF decoder = "bytes_to_str" THEN bytes_to_str(bytes)
    ELSE IF decoder = "bytes_to_bytes" THEN bytes_to_bytes(bytes)
    ELSE IF decoder = "json.loads" THEN json_loads(bytes)
    ELSE IF bytes \in SchemaPayloads THEN Ok(StructuredDict)
    ELSE Raises("schema lookup")

\* message_to_message_dict with one decoder for both fields: the value is decoded
\* as the key's type says.
message_to_message_dict_OneDecoder(message, key_type, value_type) ==
    LET key == DecodeField(key_type, message.key)
        value == DecodeField(key_type, message.value)
    IN
    IF key[1] = "raise" THEN key
    ELSE IF value[1] = "raise" THEN value
    ELSE Ok([headers   |-> message.headers,
             partition |-> message.partition,
             offset    |-> message.offset,
             timestamp |-> message.timestamp,
             key       |-> key[2],
             value     |-> value[2]])

\* message_to_message_dict: the dict literal is evaluated left to right, so the
\* key is decoded before the value and an exception of the key's decoder leaves
\* the value undecoded.
message_to_message_dict(message, key_type, value_type) ==
    LET key == DecodeField(key_type, message.key)
        value == DecodeField(value_type, message.value)
    IN
    IF key[1] = "raise" THEN key
    ELSE IF value[1] = "raise" THEN value
    ELSE Ok([headers   |-> message.headers,
             partition |-> message.partition,
             offset    |-> message.offset,
             timestamp |-> message.timestamp,
             key       |-> key[2],
             value     |-> value[2]])

\* serialize(key_bool) of Cluster.produce for the formats that need no schema:
\* a dict is dumped for "json"; every other payload, and every payload of a tag
\* that is in no branch, goes on as it is.
serialize(type_str, payload) ==
    IF type_str = "json"
    THEN IF TypeOf(payload) = "dict" THEN json_dumps(payload) ELSE payload
    ELSE payload

\* What the consumer later reads for a payload given to producer.produce: a str
\* is sent as its UTF-8 bytes, bytes as they are (empty bytes stay empty bytes),
\* None as a null payload.
Delivered(payload_str_or_bytes) ==
    IF TypeOf(payload_str_or_bytes) = "str"
    THEN PyBytes(Utf8Encode(payload_str_or_bytes[2]))
    ELSE payload_str_or_bytes

\* producer.produce takes str, bytes or None for key and value.
ProducerTakes(payload_str_or_bytes) ==
    TypeOf(payload_str_or_bytes) \in {"str", "bytes", "NoneType"}

\* The entry a decoder caches for a schema id.
CacheValue(d, schema_id_int) ==
    IF d = "protobuf"
    THEN <<GeneralizedProtocolMessageType(schema_id_int), RegistrySchemaStr(schema_id_int)>>
    ELSE RegistrySchemaStr(schema_id_int)

\* The cache of decoder d after one field was decoded with type_str (decoded is
\* false when the call raised before it got to this field).
DictAfterField(d, dict, type_str, bytes, decoded) ==
    IF /\ decoded
       /\ type_str \in StructuralTags
       /\ StructuralDecoder(type_str) = d
       /\ bytes \in SchemaPayloads
       /\ ~CacheHit(dict, SchemaIdOf(bytes[2]))
    THEN DictPut(dict, SchemaIdOf(bytes[2]), CacheValue(d, SchemaIdOf(bytes[2])))
    ELSE dict

\* last_consumed_message_key_schema_str / ..._value_schema_str after that field.
LastSchemaAfterField(before, type_str, bytes, decoded) ==
    IF decoded /\ type_str \in StructuralTags /\ bytes \in SchemaPayloads
    THEN RegistrySchemaStr(SchemaIdOf(bytes[2]))
    ELSE before

\* One call message_to_message_dict(message, key_type, value_type) on the
\* Cluster: the key's decoder runs, then the value's unless the key's raised; a
\* schema-backed decoder fills its cache and records the schema text. from_produce
\* says whether the message is the one the last produce call sent.
DecodeCall(message, key_type, value_type, from_produce) ==
    LET key_decoded == TRUE
        value_decoded == DecodeField(key_type, message.key)[1] = "ok"
        After(d, dict) ==
            DictAfterField(d, DictAfterField(d, dict, key_type, message.key, key_decoded),
                           value_type, message.value, value_decoded)
    IN
    /\ decode_call' = [made         |-> TRUE,
                       message      |-> message,
                       key_type     |-> key_type,
                       value_type   |-> value_type,
                       from_produce |-> from_produce,
                       result       |-> message_to_message_dict(message, key_type, value_type)]
    /\ schema_id_int_generalizedProtocolMessageType_protobuf_schema_str_tuple_dict' =
           After("protobuf",
                 schema_id_int_generalizedProtocolMessageType_protobuf_schema_str_tuple_dict)
    /\ schema_id_int_avro_schema_str_dict' = After("avro", schema_id_int_avro_schema_str_dict)
    /\ schema_id_int_jsonschema_str_dict' =
           After("jsonschema", schema_id_int_jsonschema_str_dict)
    /\ last_consumed_message_key_schema_str' =
           LastSchemaAfterField(last_consumed_message_key_schema_str, key_type,
                                message.key, key_decoded)
    /\ last_consumed_message_value_schema_str' =
           LastSchemaAfterField(last_consumed_message_value_schema_str, value_type,
                                message.value, value_decoded)
    /\ UNCHANGED <<cacheHistVars, clusterVars, runVars, consVars, copyVars, producerVars>>

\* The payloads of the broker messages decoded here: None, empty bytes, text,
\* JSON text, bytes that are no UTF-8, and schema-backed payloads.
RawPayloads ==
    {PyNone, PyBytes(<<>>), PyBytes(<<97>>), PyBytes(<<255>>),
     PyBytes(Utf8Encode(<<"{", "\"", "a", "\"", ":", " ", "1", "}">>))}
        \cup SchemaPayloads

\* Two envelopes that differ in every field.
Envelopes ==
    {[partition |-> 0, offset |-> 0, timestamp |-> <<TIMESTAMP_CREATE_TIME, 1001>>,
      headers |-> None],
     [partition |-> 1, offset |-> 7, timestamp |-> <<0, 0>>, headers |-> <<"h">>]}

RawMessage(envelope, key, value) ==
    [partition |-> envelope.partition,
     offset    |-> envelope.offset,
     timestamp |-> envelope.timestamp,
     headers   |-> envelope.headers,
     key       |-> key,
     value     |-> value]

\* message_to_message_dict on a message some producer wrote to the topic. One
\* call is followed here, from a fresh Cluster.
Decode ==
    /\ ~produce_call.made
    /\ ~decode_call.made
    /\ \E envelope \in Envelopes, key \in RawPayloads, value \in RawPayloads,
          key_type \in FormatTags, value_type \in FormatTags :
        DecodeCall(RawMessage(envelope, key, value), key_type, value_type, FALSE)
    /\ UNCHANGED produce_call

\* The values a caller hands to Cluster.produce as key or value.
ProduceValues ==
    {PyNone, PyBytes(<<>>), PyBytes(<<97>>), PyBytes(<<255>>), PyStr(<<>>), PyStr(<<"a">>),
     PyDict(<<>>), PyDict(<<<<"a", 0>>>>), PyDict(<<<<"a", 1>>>>)}

\* The format tags of the produce calls made here; the schema-backed ones are the
\* business of produce_protobuf.
ProduceTags == {"bytes", "str", "json", "xml"}

\* Cluster.produce(topic_str, value, key, key_type, value_type): both payloads are
\* serialized, then handed to producer.produce, which raises a TypeError for what
\* it does not take. One call is followed here, from a fresh Cluster.
Produce ==
    /\ ~produce_call.made
    /\ ~decode_call.made
    /\ \E value \in ProduceValues, key \in ProduceValues,
          key_type \in ProduceTags, value_type \in ProduceTags :
        LET key_str_or_bytes == serialize(key_type, key)
            value_str_or_bytes == serialize(value_type, value)
            taken == ProducerTakes(key_str_or_bytes) /\ ProducerTakes(value_str_or_bytes)
        IN
        /\ ProducerBecomes(IF taken THEN CountProduced(Producer) ELSE Producer)
        /\ produce_call' =
            [made       |-> TRUE,
             value      |-> value,
             key        |-> key,
             key_type   |-> key_type,
             value_type |-> value_type,
             outcome    |->
                 IF taken
                 THEN Ok(RawMessage(CHOOSE e \in Envelopes : e.partition = 0,
                                    Delivered(key_str_or_bytes),
                                    Delivered(value_str_or_bytes)))
                 ELSE Raises("TypeError")]
    /\ UNCHANGED <<decode_call, clusterVars, runVars, cacheVars, consVars, copyVars>>

\* A consumer subscribed with the key and value types of that produce call decodes
\* the message it sent.
DecodeProduced ==
    /\ produce_call.made
    /\ produce_call.outcome[1] = "ok"
    /\ ~decode_call.made
    /\ DecodeCall(produce_call.outcome[2], produce_call.key_type,
                  produce_call.value_type, TRUE)
    /\ UNCHANGED produce_call

NextCodec ==
    \/ Decode
    \/ Produce
    \/ DecodeProduced

InitSpecCodec ==
    /\ InitCluster /\ InitIdleRun /\ InitCache /\ InitConsumer /\ num_partitions = 2
    /\ InitIdleIo

SpecCodec == InitSpecCodec /\ [][NextCodec]_vars

\* ---------------------------------------------- a file, to a topic and back

\* str.split(sep) for a separator of one character: the pieces between its
\* occurrences, one more than there are occurrences.
RECURSIVE Split(_, _)
Split(char_seq, sep) ==
    IF \A i \in 1..Len(char_seq) : char_seq[i] # sep THEN <<char_seq>>
    ELSE LET first == CHOOSE i \in 1..Len(char_seq) :
                          /\ char_seq[i] = sep
                          /\ \A j \in 1..(i - 1) : char_seq[j] # sep
         IN <<SubSeq(char_seq, 1, first - 1)>>
                \o Split(SubSeq(char_seq, first + 1, Len(char_seq)), sep)

\* str.strip(): white space taken off both ends.
Whitespace == {" ", "\n"}
RECURSIVE LStrip(_)
LStrip(char_seq) ==
    IF char_seq # <<>> /\ Head(char_seq) \in Whitespace THEN LStrip(Tail(char_seq))
    ELSE char_seq
RECURSIVE RStrip(_)
RStrip(char_seq) ==
    IF char_seq # <<>> /\ char_seq[Len(char_seq)] \in Whitespace
    THEN RStrip(SubSeq(char_seq, 1, Len(char_seq) - 1))
    ELSE char_seq
strip(char_seq) == RStrip(LStrip(char_seq))

MessageSeparator == "\n"

\* str.split(sep) for a separator of one or more characters: the text is cut at
\* the leftmost occurrence, then the rest is split.
RECURSIVE str_split(_, _)
str_split(char_seq, sep) ==
    LET found == {i \in 1..(Len(char_seq) - Len(sep) + 1) :
                     SubSeq(char_seq, i, i + Len(sep) - 1) = sep}
    IN
    IF found = {} THEN <<char_seq>>
    ELSE LET first == CHOOSE i \in found : \A j \in found : i <= j IN
         <<SubSeq(char_seq, 1, first - 1)>>
             \o str_split(SubSeq(char_seq, first + Len(sep), Len(char_seq)), sep)

\* `buf_str += newbuf_str`
Buffered_Dropped(buf_str, newbuf_str) == newbuf_str
Buffered(buf_str, newbuf_str) == buf_str \o newbuf_str

\* foreach_line's `while True`: textIOWrapper.read(bufsize_int) gives the next
\* characters of the file, at most bufsize_int of them; every piece of the buffer
\* but the last is passed on and the last one kept; at the end of the file what is
\* kept is passed on unless it is empty.
RECURSIVE ReadLoop(_, _, _, _)
ReadLoop(unread, buf_str, delimiter, bufsize) ==
    IF unread = <<>> THEN (IF buf_str # <<>> THEN <<buf_str>> ELSE <<>>)
    ELSE LET newbuf_str == SubSeq(unread, 1, Min(bufsize, Len(unread)))
             line_str_list == str_split(Buffered(buf_str, newbuf_str), delimiter)
         IN SubSeq(line_str_list, 1, Len(line_str_list) - 1)
                \o ReadLoop(SubSeq(unread, Len(newbuf_str) + 1, Len(unread)),
                            line_str_list[Len(line_str_list)], delimiter, bufsize)

\* foreach_line(path_str, proc_function, delimiter, bufsize): the strings passed
\* to proc_function, in order.
foreach_line(char_seq, delimiter, bufsize) == ReadLoop(char_seq, <<>>, delimiter, bufsize)

\* upload's proc(line_str): the key and value of the produce call it makes, none
\* for a line that is empty once stripped.
proc_SplitAtFirst(line_str) ==
    LET line_str1 == strip(line_str)
        split_str_list == Split(line_str1, key_value_separator_str)
    IN
    IF line_str1 = <<>> THEN <<>>
    ELSE IF key_value_separator_str # None /\ Len(split_str_list) >= 2
    THEN <<[key |-> PyStr(split_str_list[1]), value |-> PyStr(split_str_list[2])]>>
    ELSE <<[key |-> PyNone, value |-> PyStr(line_str1)]>>
proc(line_str) ==
    LET line_str1 == strip(line_str)
        split_str_list == Split(line_str1, key_value_separator_str)
    IN
    IF line_str1 = <<>> THEN <<>>
    ELSE IF key_value_separator_str # None /\ Len(split_str_list) = 2
    THEN <<[key |-> PyStr(split_str_list[1]), value |-> PyStr(split_str_list[2])]>>
    ELSE <<[key |-> PyNone, value |-> PyStr(line_str1)]>>

\* The produce calls of upload for these lines, in order.
RECURSIVE ProduceCalls(_)
ProduceCalls(line_str_list) ==
    IF line_str_list = <<>> THEN <<>>
    ELSE proc(Head(line_str_list)) \o ProduceCalls(Tail(line_str_list))

\* The i-th message of the single partition, as produce(topic_str, value_str,
\* key=key_str, key_type="str", value_type="str") sends it.
UploadedMessage(calls, i) ==
    [partition |-> 0,
     offset    |-> i - 1,
     timestamp |-> <<TIMESTAMP_CREATE_TIME, 1000 + i>>,
     headers   |-> None,
     key       |-> Delivered(serialize("str", calls[i].key)),
     value     |-> Delivered(serialize("str", calls[i].value))]

\* f"{x}" for the values a "str" decode returns.
PyFormat(value) ==
    IF TypeOf(value) = "str" THEN value[2]
    ELSE IF TypeOf(value) = "NoneType" THEN <<"N", "o", "n", "e">>
    ELSE IF TypeOf(value) = "dict" THEN json_dumps(value)[2]
    ELSE <<"b", "'">> \o Utf8Decode(value[2]) \o <<"'">>

\* download's output_str for one consumed record.
output_str(message_dict) ==
    (IF key_value_separator_str = None THEN PyFormat(message_dict.value)
     ELSE PyFormat(message_dict.key) \o <<key_value_separator_str>>
              \o PyFormat(message_dict.value))
        \o <<MessageSeparator>>

\* What download writes for the messages of the topic, consumed in order.
RECURSIVE Written(_)
Written(message_list) ==
    IF message_list = <<>> THEN <<>>
    ELSE output_str(message_to_message_dict(Head(message_list), "str", "str")[2])
             \o Written(Tail(message_list))

\* The producer after n produce calls, and after upload: the produce calls of
\* its lines, then self.flush().
RECURSIVE ProducedTimes(_, _)
ProducedTimes(p, n) == IF n = 0 THEN p ELSE CountProduced(ProducedTimes(p, n - 1))
UploadProducer_FlushFirst(p, n) == ProducedTimes(flush(p), n)
UploadProducer(p, n) == flush(ProducedTimes(p, n))

\* Cluster.upload(path_str, topic_str, key_type="str", value_type="str",
\* key_value_separator=...) to the empty topic: one message per line produced,
\* and the flush after the last line.
Upload ==
    /\ copy_pc = "start"
    /\ LET calls == ProduceCalls(foreach_line(file_str, <<MessageSeparator>>, DefaultBufsize)) IN
       /\ topic' = [i \in 1..Len(calls) |-> UploadedMessage(calls, i)]
       /\ ProducerBecomes(UploadProducer(Producer, Len(calls)))
    /\ copy_pc' = "uploaded"
    /\ UNCHANGED <<file_str, key_value_separator_str, downloaded_str, lineVars>>
    /\ UNCHANGED <<clusterVars, runVars, cacheVars, consVars, codecVars>>

\* Cluster.download(topic_str, path_str, key_type="str", value_type="str",
\* key_value_separator=...) of the whole topic, from subscribe to unsubscribe.
Download ==
    /\ copy_pc = "uploaded"
    /\ downloaded_str' = Written(topic)
    /\ copy_pc' = "downloaded"
    /\ subscribed_topic_str' = None
    /\ last_consumed_message' = IF topic = <<>> THEN last_consumed_message
                                ELSE <<topic[Len(topic)]>>
    /\ UNCHANGED <<file_str, key_value_separator_str, topic, lineVars>>
    /\ UNCHANGED <<runVars, cacheVars, consVars, codecVars, producerVars>>

NextCopy ==
    \/ Upload
    \/ Download

\* The files read, and the separators used.
FileChars == {"a", " ", "/", "\n"}
Files == UNION {[1..len -> FileChars] : len \in 0..MaxFileLen}

InitCopy ==
    /\ InitIdleLines
    /\ file_str \in Files
    /\ key_value_separator_str \in {None, "/"}
    /\ topic = <<>>
    /\ downloaded_str = <<>>
    /\ copy_pc = "start"

InitSpecCopy ==
    /\ InitCluster /\ InitIdleRun /\ InitCache /\ InitConsumer /\ num_partitions = 2
    /\ InitIdleCodec /\ InitCopy
    /\ \E flush_num_messages \in 1..MaxFlushNum \cup {FlushNumMessagesDefault} :
           InitProducer(flush_num_messages)

SpecCopy == InitSpecCopy /\ [][NextCopy]_vars

\* foreach_line on its own: a text of two letters, read a few characters at a
\* time and cut at a delimiter of one, two or three characters.
LineChars == {"a", "b"}
LineFiles == UNION {[1..len -> LineChars] : len \in 0..MaxFileLen}
Delimiters == {<<"a">>, <<"a", "b">>, <<"a", "a">>, <<"b", "a", "b">>}

ForeachLine ==
    /\ ~foreach_line_call.made
    /\ foreach_line_call' =
           [made |-> TRUE, lines |-> foreach_line(file_str, delimiter_str, bufsize_int)]
    /\ UNCHANGED <<delimiter_str, bufsize_int, file_str, key_value_separator_str, topic,
                   downloaded_str, copy_pc>>
    /\ UNCHANGED <<clusterVars, runVars, cacheVars, consVars, codecVars, producerVars>>

InitSpecLines ==
    /\ InitCluster /\ InitIdleRun /\ InitCache /\ InitConsumer /\ num_partitions = 2
    /\ InitIdleCodec /\ InitProducer(FlushNumMessagesDefault)
    /\ file_str \in LineFiles
    /\ delimiter_str \in Delimiters
    /\ bufsize_int \in 1..MaxBufsize \cup {DefaultBufsize}
    /\ foreach_line_call = NoCall
    /\ key_value_separator_str = None
    /\ topic = <<>>
    /\ downloaded_str = <<>>
    /\ copy_pc = "idle"

SpecLines == InitSpecLines /\ [][ForeachLine]_vars

\* ------------------------------------------------------------ the source
SourceTopic == "source_topic"

\* A broker message: the i-th message delivered, with the partition and timestamp
\* type drawn for it. Offsets count the earlier messages of the same partition.
BrokerMessage(shape, i) ==
    [partition |-> shape[i][1],
     offset    |-> Cardinality({j \in 1..(i - 1) : shape[j][1] = shape[i][1]}),
     timestamp |-> <<shape[i][2], 1000 + i>>,
     headers   |-> None,
     key       |-> PyBytes(<<107, i>>),
     value     |-> PyBytes(<<118, i>>)]

SourceShapes == UNION {[1..len -> Partitions \X TimestampTypes] : len \in 0..MaxLog}

Sources == {[i \in 1..Len(shape) |-> BrokerMessage(shape, i)] : shape \in SourceShapes}

\* The sources of one partition whose messages all carry a create time.
CreateTimeSources ==
    {source_list \in Sources :
        \A i \in 1..Len(source_list) :
            /\ source_list[i].partition = 0
            /\ source_list[i].timestamp[1] = TIMESTAMP_CREATE_TIME}

\* A message of a topic written with a schema-backed format: key and value each
\* carry the id of the schema they were written with.
StructuredMessage(ids, i) ==
    [partition |-> 0,
     offset    |-> i - 1,
     timestamp |-> <<TIMESTAMP_CREATE_TIME, 1000 + i>>,
     headers   |-> None,
     key       |-> PyBytes(Payload(ids[i][1])),
     value     |-> PyBytes(Payload(ids[i][2]))]

StructuredSources ==
    {[i \in 1..Len(ids) |-> StructuredMessage(ids, i)] :
        ids \in UNION {[1..len -> SchemaIds \X SchemaIds] : len \in 0..MaxLog}}

\* --------------------------------------------------- Cluster, as the loops use it

\* Cluster.unsubscribe: the field after consumer.unsubscribe().
unsubscribe == None
\* Cluster.subscribe: the field after consumer.subscribe([topic_str], ...).
subscribe(topic_str) == topic_str

\* consumer.consume(num_messages, timeout): the next k messages.
ConsumerConsume(k) == SubSeq(source, position + 1, position + k)

\* How many messages one consumer.consume call may return: none only when none is
\* left, otherwise at least one and at most the batch size.
BatchSizes == IF position = Len(source) THEN {0}
              ELSE 1..Min(batch_size_int, Len(source) - position)

\* A variant of LastConsumed that keeps the first message of the batch.
LastConsumed_First(message_list) ==
    IF message_list = <<>> THEN last_consumed_message ELSE <<message_list[1]>>

\* Cluster.consume's update of last_consumed_message (<<>> stands for None, <<m>>
\* for the message m).
LastConsumed(message_list) ==
    IF message_list # <<>> THEN <<message_list[Len(message_list)]>>
    ELSE last_consumed_message

\* The schema-backed fields Cluster.consume decodes for a batch, in the order it
\* decodes them (each message's key, then its value): <<key_bool, schema id>>.
FieldsOf(message) ==
    (IF key_type_str \in StructuralTags
     THEN <<<<TRUE, SchemaIdOf(message.key[2])>>>> ELSE <<>>)
    \o (IF value_type_str \in StructuralTags
        THEN <<<<FALSE, SchemaIdOf(message.value[2])>>>> ELSE <<>>)

RECURSIVE DecodedFields(_)
DecodedFields(message_list) ==
    IF message_list = <<>> THEN <<>>
    ELSE FieldsOf(Head(message_list)) \o DecodedFields(Tail(message_list))

\* The protobuf cache after the first d of these fields were decoded.
RECURSIVE CacheAfter(_, _, _)
CacheAfter(dict, fields, d) ==
    IF d = 0 THEN dict
    ELSE LET before == CacheAfter(dict, fields, d - 1)
             schema_id_int == fields[d][2]
         IN IF CacheHit(before, schema_id_int) THEN before
            ELSE DictPut(before, schema_id_int,
                         <<GeneralizedProtocolMessageType(schema_id_int),
                           RegistrySchemaStr(schema_id_int)>>)

\* last_consumed_message_key_schema_str (key_bool) or ..._value_schema_str after
\* the first d fields were decoded: the text of the last such field decoded.
RECURSIVE LastSchemaAfter(_, _, _, _, _)
LastSchemaAfter(key_bool, before, dict, fields, d) ==
    IF d = 0 THEN before
    ELSE IF fields[d][1] = key_bool THEN CacheAfter(dict, fields, d)[fields[d][2]][2]
    ELSE LastSchemaAfter(key_bool, before, dict, fields, d - 1)

\* Decoding field d + 1 asks the registry (and protoc) only on a cache miss; that
\* is where it may raise.
MayRaiseAt(dict, fields, d) ==
    d < Len(fields) /\ ~CacheHit(CacheAfter(dict, fields, d), fields[d + 1][2])

\* -------------------------------------------------------------- the loops

\* BudgetReached with > for >=.
BudgetReached_Strict(counter, n) == n # ALL_MESSAGES /\ counter > n

\* The budget test that ends the loop after a batch.
BudgetReached(counter, n) == n # ALL_MESSAGES /\ counter >= n

\* AfterLoop with the unsubscribe of fold and download left out.
AfterLoop_NoUnsubscribe == IF op = "replicate" THEN "flush" ELSE "done"

\* Where the run goes when the loop ends: replicate flushes the target first.
AfterLoop == IF op = "replicate" THEN "flush" ELSE "unsubscribe"

\* AfterConsume with the break on an empty batch left out.
AfterConsume_NoBreak(batch) == IF batch = <<>> THEN "loop" ELSE "batch"

\* `if not message_dict_list: break`.
AfterConsume(batch) == IF batch = <<>> THEN AfterLoop ELSE "batch"

\* NextRecord iterating the batch from its end.
NextRecord_Reversed == message_dict_list[Len(message_dict_list) - idx + 1]

\* `for message_dict in message_dict_list`: the record the body handles next.
NextRecord == message_dict_list[idx]

\* The transform functions a caller passes to replicate: one rewrites the value,
\* one the rest of the record.
\* The functions fold is run with: one that returns the message in a list, one
\* that returns two items per message, the fold_function grep builds around
\* match_function and the one foreach builds around foreach_function.
FoldFunctions == {"list", "key_value", "grep", "foreach"}

\* The match_function grep is run with: the messages of odd timestamp.
match_function(message_dict) == message_dict.timestamp[2] % 2 = 1

\* fold_function(message_dict): the list it returns.
FoldResult(message_dict) ==
    CASE fold_function = "list"      -> <<message_dict>>
      [] fold_function = "key_value" -> <<message_dict.key, message_dict.value>>
      [] fold_function = "grep"      -> IF match_function(message_dict)
                                        THEN <<message_dict>> ELSE <<>>
      [] fold_function = "foreach"   -> <<>>

\* `acc_list1 := acc_list1 + fold_function(message_dict)` and `acc_list += acc_list1`
FoldAccumulate_Prepend(acc, result_list) == result_list \o acc
FoldAccumulate(acc, result_list) == acc \o result_list

Transforms == {"value", "envelope"}
Transform(f, message_dict) ==
    IF f = "value"
    THEN [message_dict EXCEPT !.value = PyBytes(@[2] \o <<33>>)]
    ELSE [message_dict EXCEPT !.key = PyNone,
                              !.partition = 1 - @,
                              !.headers = <<"h">>,
                              !.timestamp = <<@[1], @[2] + 1>>]

\* `if transform_function: message_dict = transform_function(message_dict)`
Transformed(message_dict) ==
    IF transform_function # None THEN Transform(transform_function, message_dict)
    ELSE message_dict

\* replicate's choice of timestamp_int for one record: Unbound when no branch
\* assigns it and no earlier record did.
ReplicateTimestamp(message_dict) ==
    IF keep_timestamps_bool
    THEN IF message_dict.timestamp[1] = TIMESTAMP_CREATE_TIME
         THEN Bound(message_dict.timestamp[2])
         ELSE timestamp_int
    ELSE Bound(0)

\* ReplicateSchemas with the two fields taken for one another.
ReplicateSchemas_Swapped ==
    <<last_consumed_message_value_schema_str, last_consumed_message_key_schema_str>>

\* key_schema and value_schema of replicate's produce call: the source Cluster's
\* fields as they are when the call is made.
ReplicateSchemas ==
    <<last_consumed_message_key_schema_str, last_consumed_message_value_schema_str>>

\* The arguments target_cluster.produce receives for one record.
ProduceArgs(message_dict, ts) ==
    [value        |-> message_dict.value,
     key          |-> message_dict.key,
     key_schema   |-> ReplicateSchemas[1],
     value_schema |-> ReplicateSchemas[2],
     partition    |-> message_dict.partition,
     timestamp    |-> ts[2],
     headers      |-> message_dict.headers]

\* `if verbose_int > 0 and message_counter_int % progress_num_messages_int == 0`
ProgressDue(counter) == verbose_int > 0 /\ counter % progress_num_messages_int = 0

\* SubscribedAfterError as a finally clause calling unsubscribe would leave it.
SubscribedAfterError_Finally == None

\* An exception leaves the loop at once: nothing after the raising statement runs,
\* and no handler or finally clause releases the subscription.
SubscribedAfterError == subscribed_topic_str

Raise(where) ==
    /\ pc' = "raised"
    /\ error' = where
    /\ subscribed_topic_str' = SubscribedAfterError

\* The runs checked: every loop over every plain source with the types "bytes";
\* beyond that, one at a time, replicate with a transform, any loop with progress
\* reports switched on, replicate to a target that flushes every one or two
\* messages, fold with the fold functions of grep and foreach and with one that
\* returns two items, and replicate of a schema-backed source with "pb".
InitRun ==
    /\ op \in {"replicate", "fold", "download"}
    /\ num_messages_int \in {ALL_MESSAGES} \cup 0..MaxBudget
    /\ batch_size_int \in 1..MaxBatch
    /\ keep_timestamps_bool \in IF op = "replicate" THEN BOOLEAN ELSE {TRUE}
    /\ \/ /\ transform_function \in
                 {None} \cup (IF op = "replicate" THEN Transforms ELSE {})
          /\ verbose_int = 0 /\ progress_num_messages_int = 1
          /\ key_type_str = "bytes" /\ value_type_str = "bytes"
          /\ fold_function = IF op = "fold" THEN "list" ELSE None
          /\ source \in Sources
          /\ InitProducer(FlushNumMessagesDefault)
       \/ /\ transform_function = None
          /\ verbose_int = 1 /\ progress_num_messages_int \in 1..MaxProgress
          /\ key_type_str = "bytes" /\ value_type_str = "bytes"
          /\ fold_function = IF op = "fold" THEN "list" ELSE None
          /\ source \in CreateTimeSources
          /\ InitProducer(FlushNumMessagesDefault)
       \/ /\ op = "replicate" /\ keep_timestamps_bool
          /\ transform_function = None
          /\ verbose_int = 0 /\ progress_num_messages_int = 1
          /\ key_type_str = "bytes" /\ value_type_str = "bytes"
          /\ fold_function = None
          /\ source \in CreateTimeSources
          /\ \E flush_num_messages \in 1..MaxFlushNum : InitProducer(flush_num_messages)
       \/ /\ op = "fold"
          /\ fold_function \in FoldFunctions \ {"list"}
          /\ transform_function = None
          /\ verbose_int = 0 /\ progress_num_messages_int = 1
          /\ key_type_str = "bytes" /\ value_type_str = "bytes"
          /\ source \in CreateTimeSources
          /\ InitProducer(FlushNumMessagesDefault)
       \/ /\ op = "replicate" /\ keep_timestamps_bool
          /\ num_messages_int = ALL_MESSAGES
          /\ transform_function = None
          /\ verbose_int = 0 /\ progress_num_messages_int = 1
          /\ key_type_str = "pb" /\ value_type_str = "pb"
          /\ fold_function = None
          /\ source \in StructuredSources
          /\ InitProducer(FlushNumMessagesDefault)
    /\ position = 0
    /\ pc = "start"
    /\ message_dict_list = <<>>
    /\ idx = 1
    /\ message_counter_int = 0
    /\ timestamp_int = Unbound
    /\ produced = <<>>
    /\ acc_list = <<>>
    /\ acc_list1 = <<>>
    /\ foreach_calls = <<>>
    /\ output_str_list = <<>>
    /\ file_lines = <<>>
    /\ consume_calls = 0
    /\ empty_batches = 0
    /\ prev_counter = 0
    /\ processed = 0
    /\ flush_calls = 0
    /\ unsubscribe_calls = 0
    /\ error = None
    /\ reports = <<>>

\* source_cluster.subscribe(...); message_counter_int = 0.
RunSubscribe ==
    /\ UNCHANGED <<cacheVars, consVars, ioVars>>
    /\ pc = "start"
    /\ subscribed_topic_str' = subscribe(SourceTopic)
    /\ message_counter_int' = 0
    /\ pc' = "loop"
    /\ UNCHANGED <<last_consumed_message, paramVars, position, message_dict_list, idx,
                   timestamp_int, sinkVars, histVars>>

\* message_dict_list = source_cluster.consume(n=batch_size); if not ...: break.
\* Cluster.consume decodes the whole batch before it returns, so a payload that
\* does not decode raises before any record of the batch is processed; the fields
\* decoded before it have already been cached and recorded as last schema. (The
\* counters of the cache part are its history and are not kept here.)
RunConsume ==
    /\ UNCHANGED <<consVars, ioVars>>
    /\ pc = "loop"
    /\ \E k \in BatchSizes :
        LET message_list == ConsumerConsume(k)
            fields == DecodedFields(message_list)
            dict == schema_id_int_generalizedProtocolMessageType_protobuf_schema_str_tuple_dict
            decoded == [i \in 1..k |->
                           message_to_message_dict(message_list[i], key_type_str,
                                                   value_type_str)]
        IN
        \E d \in 0..Len(fields) :
        /\ d < Len(fields) => MayRaiseAt(dict, fields, d)
        /\ position' = position + k
        /\ consume_calls' = consume_calls + 1
        /\ empty_batches' = IF k = 0 THEN empty_batches + 1 ELSE empty_batches
        /\ last_consumed_message' = LastConsumed(message_list)
        /\ schema_id_int_generalizedProtocolMessageType_protobuf_schema_str_tuple_dict' =
               CacheAfter(dict, fields, d)
        /\ last_consumed_message_key_schema_str' =
               LastSchemaAfter(TRUE, last_consumed_message_key_schema_str, dict, fields, d)
        /\ last_consumed_message_value_schema_str' =
               LastSchemaAfter(FALSE, last_consumed_message_value_schema_str, dict,
                               fields, d)
        /\ IF d < Len(fields) \/ \E i \in 1..k : decoded[i][1] = "raise"
           THEN /\ Raise("decode")
                /\ UNCHANGED <<message_dict_list, idx, acc_list1, output_str_list>>
           ELSE /\ message_dict_list' = [i \in 1..k |-> decoded[i][2]]
                /\ idx' = 1
                /\ acc_list1' = <<>>
                /\ output_str_list' = <<>>
                /\ pc' = AfterConsume(message_dict_list')
                /\ UNCHANGED <<subscribed_topic_str, error>>
    /\ UNCHANGED <<schema_id_int_avro_schema_str_dict, schema_id_int_jsonschema_str_dict,
                   cacheHistVars>>
    /\ UNCHANGED <<paramVars, message_counter_int, timestamp_int, produced, acc_list,
                   file_lines, foreach_calls, prev_counter, processed, flush_calls,
                   unsubscribe_calls, reports>>

\* The body of `for message_dict in message_dict_list` for one record.
\*   replicate: the transform (which may raise), the timestamp choice, then
\*              target_cluster.produce (which may raise); reading timestamp_int
\*              while it is unbound raises UnboundLocalError.
\*   fold:      acc_list1 := acc_list1 + fold_function(message_dict) (may raise);
\*              foreach's fold_function calls foreach_function on the way.
\*   download:  output_str_list += [output_str].
RunProcess ==
    /\ UNCHANGED <<cacheVars, consVars, codecVars, copyVars>>
    /\ pc = "batch"
    /\ idx <= Len(message_dict_list)
    /\ \E outcome \in {"ok", "raises"} \cup
                      (IF op = "replicate" /\ transform_function # None
                       THEN {"transform raises"} ELSE {}) :
        LET message_dict == IF op = "replicate" THEN Transformed(NextRecord)
                            ELSE NextRecord
            ts == ReplicateTimestamp(message_dict)
        IN
        IF outcome = "transform raises"
        THEN /\ Raise("transform")
             /\ UNCHANGED <<timestamp_int, idx, processed, sinkVars, producerVars>>
        ELSE IF op = "replicate" /\ ts = Unbound
        THEN /\ outcome = "ok"
             /\ Raise("timestamp")
             /\ UNCHANGED <<timestamp_int, idx, processed, sinkVars, producerVars>>
        ELSE IF outcome = "raises" /\ op # "download"
        THEN /\ Raise(IF op = "replicate" THEN "produce" ELSE "fold_function")
             /\ timestamp_int' = IF op = "replicate" THEN ts ELSE timestamp_int
             /\ UNCHANGED <<idx, processed, sinkVars, producerVars>>
        ELSE /\ outcome = "ok"
             /\ timestamp_int' = IF op = "replicate" THEN ts ELSE timestamp_int
             /\ produced' = IF op = "replicate"
                            THEN Append(produced, ProduceArgs(message_dict, ts))
                            ELSE produced
             /\ ProducerBecomes(IF op = "replicate" THEN CountProduced(Producer)
                                ELSE Producer)
             /\ acc_list1' = IF op = "fold"
                             THEN FoldAccumulate(acc_list1, FoldResult(message_dict))
                             ELSE acc_list1
             /\ foreach_calls' = IF op = "fold" /\ fold_function = "foreach"
                                 THEN Append(foreach_calls, message_dict)
                                 ELSE foreach_calls
             /\ output_str_list' = IF op = "download"
                                   THEN Append(output_str_list, message_dict.value)
                                   ELSE output_str_list
             /\ UNCHANGED <<acc_list, file_lines>>
             /\ idx' = idx + 1
             /\ processed' = processed + 1
             /\ pc' = IF idx' > Len(message_dict_list) THEN "batch_end" ELSE "batch"
             /\ UNCHANGED <<subscribed_topic_str, error>>
    /\ UNCHANGED <<last_consumed_message, paramVars, position, message_dict_list,
                   message_counter_int, consume_calls, empty_batches, prev_counter,
                   flush_calls, unsubscribe_calls, reports>>

\* After the for loop: download writes the batch's lines (which may raise), fold
\* appends acc_list1; then the counter, the progress report and the budget test.
RunBatchEnd ==
    /\ UNCHANGED <<cacheVars, consVars, ioVars>>
    /\ pc = "batch_end"
    /\ \E ok \in BOOLEAN :
        IF op = "download" /\ ~ok
        THEN /\ Raise("writelines")
             /\ UNCHANGED <<message_counter_int, prev_counter, acc_list, file_lines,
                            reports>>
        ELSE /\ ok
             /\ file_lines' = IF op = "download" THEN file_lines \o output_str_list
                              ELSE file_lines
             /\ acc_list' = IF op = "fold" THEN FoldAccumulate(acc_list, acc_list1)
                            ELSE acc_list
             /\ prev_counter' = message_counter_int
             /\ message_counter_int' = message_counter_int + Len(message_dict_list)
             /\ reports' = IF ProgressDue(message_counter_int')
                           THEN Append(reports, message_counter_int') ELSE reports
             /\ pc' = IF BudgetReached(message_counter_int', num_messages_int)
                      THEN AfterLoop ELSE "loop"
             /\ UNCHANGED <<subscribed_topic_str, error>>
    /\ UNCHANGED <<last_consumed_message, paramVars, position, message_dict_list, idx,
                   timestamp_int, produced, acc_list1, output_str_list, foreach_calls,
                   consume_calls, empty_batches, processed, flush_calls,
                   unsubscribe_calls>>

\* target_cluster.flush().
RunFlush ==
    /\ UNCHANGED <<cacheVars, consVars, codecVars, copyVars>>
    /\ pc = "flush"
    /\ flush_calls' = flush_calls + 1
    /\ ProducerBecomes(flush(Producer))
    /\ pc' = "unsubscribe"
    /\ UNCHANGED <<clusterVars, paramVars, position, message_dict_list, idx,
                   message_counter_int, timestamp_int, sinkVars, consume_calls,
                   empty_batches, prev_counter, processed, unsubscribe_calls, error,
                   reports>>

\* source_cluster.unsubscribe(), the last statement of the run.
RunUnsubscribe ==
    /\ UNCHANGED <<cacheVars, consVars, ioVars>>
    /\ pc = "unsubscribe"
    /\ subscribed_topic_str' = unsubscribe
    /\ unsubscribe_calls' = unsubscribe_calls + 1
    /\ pc' = "done"
    /\ UNCHANGED <<last_consumed_message, paramVars, position, message_dict_list, idx,
                   message_counter_int, timestamp_int, sinkVars, consume_calls,
                   empty_batches, prev_counter, processed, flush_calls, error, reports>>

\* The caller, after the run raised, calls Cluster.unsubscribe itself.
CallerUnsubscribe ==
    /\ UNCHANGED <<cacheVars, consVars, ioVars>>
    /\ pc = "raised"
    /\ subscribed_topic_str' = unsubscribe
    /\ pc' = "cleaned"
    /\ UNCHANGED <<last_consumed_message, paramVars, position, message_dict_list, idx,
                   message_counter_int, timestamp_int, sinkVars, histVars>>

NextRun ==
    \/ RunSubscribe
    \/ RunConsume
    \/ RunProcess
    \/ RunBatchEnd
    \/ RunFlush
    \/ RunUnsubscribe
    \/ CallerUnsubscribe

InitSpecRun ==
    /\ InitCluster /\ InitRun /\ InitCache /\ InitConsumer /\ num_partitions = 2
    /\ InitIdleCodec /\ InitIdleCopy

SpecRun == InitSpecRun /\ [][NextRun]_vars

\* The run is one thread of a running process: each of its steps is taken. The
\* caller's cleanup after an error is not part of the run and gets no fairness.
RunStep ==
    RunSubscribe \/ RunConsume \/ RunProcess \/ RunBatchEnd \/ RunFlush \/ RunUnsubscribe

FairSpecRun == SpecRun /\ WF_vars(RunStep)

\* The callers of Cluster.produce that flush at their end: a replicate run or an
\* upload.
SpecProduce == (InitSpecRun \/ InitSpecCopy) /\ [][NextRun \/ NextCopy]_vars

\* ------------------------------------------------------ the consumer side

TopicPartitions == 0..(num_partitions - 1)

\* The message at an offset of a partition of the subscribed topic.
TopicMessage(p, o) ==
    [partition |-> p,
     offset    |-> o,
     timestamp |-> <<TIMESTAMP_CREATE_TIME, 1000 + o>>,
     headers   |-> None,
     key       |-> <<"k", p, o>>,
     value     |-> <<"v", p, o>>]

\* offsets arguments of subscribe: a dict from an index to a starting offset (the
\* empty dict also stands for offsets=None: on_assign then changes no offset).
OffsetsDicts ==
    UNION {[indices -> {LogEnd - 1}] : indices \in SUBSET Partitions}

\* config arguments of subscribe.
ConfigDicts ==
    {<<>>, [k \in {"enable.auto.commit"} |-> FALSE], [k \in {"client.id"} |-> "kash"]}

\* `for key_str, value in config_dict.items(): self.config_dict[key_str] = value`
DictUpdate(dict, other) ==
    [k \in DOMAIN dict \cup DOMAIN other |-> IF k \in DOMAIN other THEN other[k] ELSE dict[k]]

\* The configuration subscribe leaves in self.config_dict: the settings are
\* written first, the config argument's entries after them. (session.timeout.ms,
\* written with them, never changes here and is left out.)
SubscribeConfig(group_str, config) ==
    DictUpdate(DictUpdate(config_dict,
                   [k \in {"group.id", "auto.offset.reset", "enable.auto.commit"} |->
                       IF k = "group.id" THEN group_str
                       ELSE IF k = "auto.offset.reset" THEN auto_offset_reset_str
                       ELSE auto_commit_bool]),
               config)

\* The partitions lists a rebalance may hand to on_assign: the whole topic for a
\* group of this consumer alone, and any part of it, in partition order, when the
\* group has other members.
AllPartitions == [i \in 1..num_partitions |-> i - 1]
Assignments(group_str) ==
    IF group_str = NamedGroup
    THEN {AllPartitions} \cup {<<p>> : p \in TopicPartitions}
    ELSE {AllPartitions}

\* Where the broker starts a partition that carries no explicit offset: the
\* group's committed offset, else auto.offset.reset.
ResetStart(config, p) ==
    IF committed[config["group.id"]][p] # OFFSET_INVALID
    THEN committed[config["group.id"]][p]
    ELSE IF config["auto.offset.reset"] = "earliest" THEN 0 ELSE LogEnd

\* on_assign: `topicPartition_list[index_int].offset = offset_int` for each item of
\* offsets_dict, the list being the partitions argument. The element at list index
\* i (0-based) is partitions[i + 1] here.
OnAssignRaises(partitions, offsets_dict) ==
    \E index_int \in DOMAIN offsets_dict : index_int >= Len(partitions)

OnAssignOffset(partitions, offsets_dict, i, config) ==
    IF (i - 1) \in DOMAIN offsets_dict THEN offsets_dict[i - 1]
    ELSE ResetStart(config, partitions[i])

\* consumer.assign(topicPartition_list): the position of every assigned partition.
AssignedPositions(partitions, offsets_dict, config) ==
    [p \in Partitions |->
        IF \E i \in 1..Len(partitions) : partitions[i] = p
        THEN OnAssignOffset(partitions, offsets_dict,
                 CHOOSE i \in 1..Len(partitions) : partitions[i] = p, config)
        ELSE LogEnd]

Range(seq) == {seq[i] : i \in 1..Len(seq)}
Count(seq, p, upto) == Cardinality({j \in 1..upto : seq[j] = p})
Remaining(partitions, pos) == {p \in Range(partitions) : pos[p] < LogEnd}

\* The batches consumer.consume(n) may return from the assigned partitions: up to n
\* messages, each partition's in offset order, partitions interleaved in any way;
\* an empty batch only when no assigned partition has a message left.
Batches(partitions, pos, n) ==
    IF Remaining(partitions, pos) = {} THEN {<<>>}
    ELSE UNION {
        {[i \in 1..k |-> TopicMessage(choice[i], pos[choice[i]] + Count(choice, choice[i], i - 1))] :
            choice \in {c \in [1..k -> Range(partitions)] :
                          \A p \in Range(partitions) : pos[p] + Count(c, p, k) <= LogEnd}}
        : k \in 1..n}

PositionsAfter(pos, batch) ==
    [p \in Partitions |-> pos[p] + Cardinality({i \in 1..Len(batch) : batch[i].partition = p})]

FirstConsumedAfter(first, batch) ==
    [p \in Partitions |->
        IF first[p] = -1 /\ \E i \in 1..Len(batch) : batch[i].partition = p
        THEN batch[CHOOSE i \in 1..Len(batch) :
                       /\ batch[i].partition = p
                       /\ \A j \in 1..(i - 1) : batch[j].partition # p].offset
        ELSE first[p]]

\* offset_int_to_int_or_str
offset_int_to_int_or_str(offset_int) ==
    IF offset_int >= 0 THEN <<"int", offset_int>>
    ELSE IF offset_int = OFFSET_INVALID THEN <<"str", "OFFSET_INVALID">>
    ELSE <<"str", "other">>

\* Cluster.offsets(): the committed offsets of the consumer's group, by partition;
\* nothing is returned while no topic is subscribed.
offsets ==
    IF subscribed_topic_str # None
    THEN [p \in TopicPartitions |->
             offset_int_to_int_or_str(committed[consumer_config["group.id"]][p])]
    ELSE None

\* The sessions checked: one subscription to a topic of two partitions, and up to
\* MaxResubscribes subscriptions, one after or over the other, to a topic of one.
\* The setters below change what the next subscribe reads and nothing else, so a
\* call made while a consumer is subscribed is taken at the moment that consumer
\* is unsubscribed.
SubscribeBound == IF num_partitions = 1 THEN MaxResubscribes ELSE MaxSubscribes
BetweenSubscriptions ==
    /\ consumer_state \in {"none", "unsubscribed"}
    /\ consumer_id < SubscribeBound

\* Cluster.set_auto_commit
set_auto_commit ==
    /\ BetweenSubscriptions
    /\ auto_commit_bool' = ~auto_commit_bool
    /\ UNCHANGED <<config_dict, auto_offset_reset_str, consumerVars, brokerVars,
                   consHistVars>>
    /\ UNCHANGED <<clusterVars, runVars, cacheVars, ioVars>>

\* Cluster.set_auto_offset_reset
set_auto_offset_reset ==
    /\ BetweenSubscriptions
    /\ auto_offset_reset_str' =
           IF auto_offset_reset_str = "earliest" THEN "latest" ELSE "earliest"
    /\ UNCHANGED <<config_dict, auto_commit_bool, consumerVars, brokerVars,
                   consHistVars>>
    /\ UNCHANGED <<clusterVars, runVars, cacheVars, ioVars>>

\* `self.consumer = get_consumer(self.config_dict)` over a consumer that is still
\* subscribed: subscribe neither unsubscribes nor closes it, and what becomes of
\* its subscription is left to the reclaiming of the dropped object: it is
\* released then, or it is not.
Replaced == {{}, live_consumers \cap {consumer_id}}

\* Cluster.subscribe(topic_str, group, offsets, config): a new Consumer built from
\* self.config_dict replaces self.consumer; the rebalance (and on_assign) happens
\* on a later consume.
Subscribe ==
    /\ consumer_id < SubscribeBound
    /\ \E group \in {None, "group"}, offsets_dict \in OffsetsDicts, config \in ConfigDicts :
        LET group_str == IF group = None THEN create_unique_group_id(consumer_id + 1)
                         ELSE NamedGroup
        IN
        /\ config_dict' = SubscribeConfig(group_str, config)
        /\ consumer_config' = config_dict'
        /\ consumer_offsets_dict' = offsets_dict
        /\ subscribe_config' = config
        /\ requested_auto_commit' =
               IF "enable.auto.commit" \in DOMAIN config
               THEN config["enable.auto.commit"] ELSE auto_commit_bool
    /\ consumer_id' = consumer_id + 1
    /\ consumer_state' = "subscribed"
    /\ consumer_assignment' = <<>>
    /\ consumer_position' = [p \in Partitions |-> 0]
    /\ subscribed_topic_str' = subscribe(SourceTopic)
    /\ first_consumed' = [p \in Partitions |-> -1]
    /\ reset_start' = [p \in Partitions |-> -1]
    /\ consumer_commits' = FALSE
    /\ \E released \in Replaced :
           live_consumers' = (live_consumers \ released) \cup {consumer_id + 1}
    /\ UNCHANGED <<last_consumed_message, auto_commit_bool, auto_offset_reset_str,
                   brokerVars, last_batch, last_consume, last_consumed_by, commit_call>>
    /\ UNCHANGED <<runVars, cacheVars, ioVars>>

\* MustSubscribe with the test lost: consume always goes on to the consumer.
MustSubscribe_Never == FALSE

\* `if self.subscribed_topic_str is None:` print a hint and return.
MustSubscribe == subscribed_topic_str = None

\* How a Cluster.consume call went: "refused" (returned None at the test above,
\* the consumer not called, nothing raised), "consumer called", or "no consumer"
\* (self.consumer does not exist: AttributeError).
ConsumeWent(how) == <<how, 1 - last_consume[2]>>

\* Cluster.consume(n). Without a subscription it returns at once. Otherwise the
\* consumer is called: its first consume runs the rebalance and on_assign; an
\* index of offsets_dict outside the partitions list raises IndexError there, and
\* the consumer then delivers nothing. A payload that does not decode raises after
\* last_consumed_message was set, so it leaves the same state as a batch that
\* decodes.
Consume ==
    /\ IF MustSubscribe
       THEN /\ last_consume' = ConsumeWent("refused")
            /\ UNCHANGED <<last_consumed_message, consumer_state, consumer_assignment,
                           consumer_position, first_consumed, reset_start, last_batch,
                           last_consumed_by>>
       ELSE IF consumer_state = "none"
       THEN /\ last_consume' = ConsumeWent("no consumer")
            /\ UNCHANGED <<last_consumed_message, consumer_state, consumer_assignment,
                           consumer_position, first_consumed, reset_start, last_batch,
                           last_consumed_by>>
       ELSE IF consumer_state \in {"failed", "unsubscribed"}
       THEN /\ last_consume' = ConsumeWent("consumer called")
            /\ UNCHANGED <<last_consumed_message, consumer_state, consumer_assignment,
                           consumer_position, first_consumed, reset_start, last_batch,
                           last_consumed_by>>
       ELSE
        /\ last_consume' = ConsumeWent("consumer called")
        /\ \E partitions \in IF consumer_state = "subscribed"
                             THEN Assignments(consumer_config["group.id"])
                             ELSE {consumer_assignment} :
            IF consumer_state = "subscribed"
               /\ OnAssignRaises(partitions, consumer_offsets_dict)
            THEN /\ consumer_state' = "failed"
                 /\ UNCHANGED <<last_consumed_message, consumer_assignment,
                                consumer_position, first_consumed, reset_start, last_batch,
                                last_consumed_by>>
            ELSE LET pos == IF consumer_state = "subscribed"
                            THEN AssignedPositions(partitions, consumer_offsets_dict,
                                                   consumer_config)
                            ELSE consumer_position
                 IN
                 \E n \in 1..MaxBatch : \E message_list \in Batches(partitions, pos, n) :
                    /\ consumer_state' = "assigned"
                    /\ consumer_assignment' = partitions
                    /\ consumer_position' = PositionsAfter(pos, message_list)
                    /\ reset_start' =
                           IF consumer_state = "subscribed"
                           THEN [p \in Partitions |-> ResetStart(consumer_config, p)]
                           ELSE reset_start
                    /\ last_consumed_message' = LastConsumed(message_list)
                    /\ last_consumed_by' = IF message_list # <<>> THEN consumer_id
                                           ELSE last_consumed_by
                    /\ first_consumed' = FirstConsumedAfter(first_consumed, message_list)
                    /\ last_batch' = IF message_list # <<>> THEN message_list
                                     ELSE last_batch
    /\ UNCHANGED <<subscribed_topic_str, settingVars, consumer_id, consumer_config,
                   consumer_offsets_dict, brokerVars, requested_auto_commit,
                   consumer_commits, commit_call, live_consumers, subscribe_config>>
    /\ UNCHANGED <<runVars, cacheVars, ioVars>>

\* What consumer.commit(message) commits: the offset after the message, for the
\* message's partition, in the consumer's group; with no message, the positions of
\* the assigned partitions.
CommitOffsets(message, group_str) ==
    IF message # <<>>
    THEN [committed EXCEPT ![group_str][message[1].partition] = message[1].offset + 1]
    ELSE [committed EXCEPT ![group_str] =
             [p \in Partitions |->
                 IF consumer_state = "assigned" /\ p \in Range(consumer_assignment)
                 THEN consumer_position[p] ELSE @[p]]]

\* Cluster.commit(): self.consumer.commit(self.last_consumed_message).
Commit ==
    /\ consumer_id > 0
    /\ committed' = CommitOffsets(last_consumed_message, consumer_config["group.id"])
    /\ consumer_commits' = TRUE
    /\ commit_call' = [made       |-> TRUE,
                       message_by |-> IF last_consumed_message = <<>> THEN 0
                                      ELSE last_consumed_by,
                       consumer   |-> consumer_id]
    /\ UNCHANGED <<clusterVars, settingVars, consumerVars, num_partitions, first_consumed,
                   reset_start, last_batch, requested_auto_commit, last_consume,
                   last_consumed_by, live_consumers, subscribe_config>>
    /\ UNCHANGED <<runVars, cacheVars, ioVars>>

\* Cluster.unsubscribe()
Unsubscribe ==
    /\ consumer_id > 0
    /\ consumer_state # "unsubscribed"
    /\ consumer_state' = "unsubscribed"
    /\ subscribed_topic_str' = unsubscribe
    /\ live_consumers' = live_consumers \ {consumer_id}
    /\ UNCHANGED <<last_consumed_message, settingVars, consumer_id, consumer_config,
                   consumer_offsets_dict, consumer_assignment, consumer_position,
                   brokerVars, first_consumed, reset_start, last_batch,
                   requested_auto_commit, consumer_commits, last_consume,
                   last_consumed_by, commit_call, subscribe_config>>
    /\ UNCHANGED <<runVars, cacheVars, ioVars>>

\* The consumer's background commit of its positions, when it was built with
\* enable.auto.commit true.
AutoCommit ==
    /\ consumer_state = "assigned"
    /\ consumer_config["enable.auto.commit"]
    /\ committed' = CommitOffsets(<<>>, consumer_config["group.id"])
    /\ committed' # committed
    /\ UNCHANGED <<clusterVars, settingVars, consumerVars, num_partitions, consHistVars>>
    /\ UNCHANGED <<runVars, cacheVars, ioVars>>

\* Cluster.watermarks and Cluster.offsets_for_times: `config_dict =
\* self.config_dict; config_dict["group.id"] = "dummy_group_id"` writes to the
\* Cluster's own dict; the consumer they build is used for the lookup only.
DummyGroup == <<"dummy_group_id">>
watermarks ==
    /\ consumer_id < SubscribeBound
    /\ config_dict' = DictUpdate(config_dict, [k \in {"group.id"} |-> DummyGroup])
    /\ config_dict' # config_dict
    /\ UNCHANGED <<auto_commit_bool, auto_offset_reset_str, consumerVars, brokerVars,
                   consHistVars>>
    /\ UNCHANGED <<clusterVars, runVars, cacheVars, ioVars>>

NextConsumer ==
    \/ watermarks
    \/ set_auto_commit
    \/ set_auto_offset_reset
    \/ Subscribe
    \/ Consume
    \/ Commit
    \/ Unsubscribe
    \/ AutoCommit

InitSpecConsumer ==
    /\ InitCluster /\ InitIdleRun /\ InitCache /\ InitConsumer /\ InitIdleIo
    /\ num_partitions \in 1..Cardinality(Partitions)

SpecConsumer == InitSpecConsumer /\ [][NextConsumer]_vars

\* ------------------------------------------------ claims about the caches

Dict(d) ==
    IF d = "protobuf"
    THEN schema_id_int_generalizedProtocolMessageType_protobuf_schema_str_tuple_dict
    ELSE IF d = "avro" THEN schema_id_int_avro_schema_str_dict
    ELSE schema_id_int_jsonschema_str_dict

\* C1 as stated: for each decoder, get_schema is called at most once per schema id.
C1_GetSchemaAtMostOncePerId ==
    \A d \in Decoders, i \in SchemaIds : get_schema_calls[d][i] <= 1

\* C1, amended: for each decoder, a decode of an id that is in the cache calls
\* get_schema zero times, and get_schema is called at most once per schema id
\* beyond the resolutions that raised (a fetch or a protoc run that raises caches
\* nothing, and the next decode of that id fetches again).
C1_NoFetchOnCacheHit ==
    /\ [][\A d \in Decoders, i \in SchemaIds :
            i \in DOMAIN Dict(d) => get_schema_calls'[d][i] = get_schema_calls[d][i]]_vars
    /\ [](\A d \in Decoders, i \in SchemaIds :
            get_schema_calls[d][i] <= 1 + failed_resolutions[d][i])

C1_Witness ==
    /\ last_call[1] \in Decoders
    /\ last_call[3]
    /\ get_schema_calls[last_call[1]][last_call[2]] = 2
    /\ failed_resolutions[last_call[1]][last_call[2]] = 1

\* C2: the .proto file of a schema id is written and compiled at most once, over
\* any sequence of protobuf decode and protobuf produce calls.
C2_CompileAtMostOncePerId ==
    \A i \in SchemaIds : protoc_calls[i] <= 1

\* C16: over any sequence of decode and produce calls, each of the three cache
\* maps only grows: a key, once present, stays, and its entry keeps its value.
C16_CacheGrowOnly ==
    [][\A d \in Decoders :
          \A i \in DOMAIN Dict(d) : i \in DOMAIN Dict(d)' /\ Dict(d)'[i] = Dict(d)[i]]_vars

\* A decoder's map holds two ids and its last decode was served from the map.
C16_Witness ==
    \E d \in Decoders :
        /\ Cardinality(DOMAIN Dict(d)) = 2
        /\ last_call[1] = d
        /\ last_call[3]

\* ------------------------------------------------- claims about the loops

Returned == pc = "done"
LoopLeftNormally == pc \in {"flush", "unsubscribe", "done"}
KeyValue(seq) == [i \in 1..Len(seq) |-> <<seq[i].key, seq[i].value>>]
\* The source's messages as Cluster.consume returns them, decoded with the run's
\* key and value types.
Consumed ==
    [i \in 1..Len(source) |->
        message_to_message_dict(source[i], key_type_str, value_type_str)[2]]

\* C3 as stated: after replicate, fold or download returns or raises, the source's
\* unsubscribe has run and subscribed_topic_str is None.
C3_UnsubscribeOnEveryExit ==
    pc \in {"done", "raised"} => (subscribed_topic_str = None /\ unsubscribe_calls = 1)

\* C3, amended: unsubscribe runs on every normal exit of the consume loop (an empty
\* batch, or the budget reached), after which subscribed_topic_str is None; an exit
\* by an error runs no unsubscribe.
C3_UnsubscribeOnNormalExit ==
    /\ Returned =>
          /\ subscribed_topic_str = None
          /\ unsubscribe_calls = 1
          /\ error = None
          /\ empty_batches = 1 \/ BudgetReached(message_counter_int, num_messages_int)
    /\ pc = "raised" => unsubscribe_calls = 0

C3_Witness ==
    /\ Returned
    /\ processed >= 2
    /\ subscribed_topic_str = None
    /\ unsubscribe_calls = 1

C5_EmptyBatchEndsRun ==
    /\ [][empty_batches > 0 => consume_calls' = consume_calls]_vars
    /\ [](empty_batches > 0 => (LoopLeftNormally /\ empty_batches = 1))
    /\ (num_messages_int = ALL_MESSAGES => <>(Returned \/ error # None))

C5_Witness ==
    /\ Returned
    /\ num_messages_int = ALL_MESSAGES
    /\ empty_batches = 1
    /\ Len(source) >= 2
    /\ consume_calls = Len(source) + 1

\* C6: replicate without a transform hands the records to the target's produce in
\* the order consumed, each exactly once: what was produced so far is a prefix of
\* the source, and a run to exhaustion has produced the whole source, for every
\* batch size.
C6_ReplicateOrderAndMultiplicity ==
    (op = "replicate" /\ transform_function = None) =>
        /\ Len(produced) <= Len(source)
        /\ KeyValue(produced) = SubSeq(KeyValue(Consumed), 1, Len(produced))
        /\ (Returned /\ num_messages_int = ALL_MESSAGES) =>
               KeyValue(produced) = KeyValue(Consumed)

C6_Witness ==
    /\ op = "replicate"
    /\ Returned
    /\ num_messages_int = ALL_MESSAGES
    /\ batch_size_int = 2
    /\ Len(source) = 3
    /\ transform_function = None
    /\ \A i \in 1..Len(source) : source[i].partition = 0
    /\ KeyValue(produced) = KeyValue(Consumed)

\* C7 as stated: every record replicate produces carries its source record's
\* partition, and its source record's timestamp when keep_timestamps is true, 0
\* when it is false.
C7_TimestampAndPartitionPreserved ==
    (op = "replicate" /\ transform_function = None) =>
        \A i \in 1..Len(produced) :
            /\ produced[i].partition = source[i].partition
            /\ produced[i].timestamp =
                   IF keep_timestamps_bool THEN source[i].timestamp[2] ELSE 0

\* C10: an error raised inside the loop propagates; no unsubscribe has run and the
\* source is still subscribed; no later record is consumed, processed or written;
\* and only the caller's own unsubscribe ends the subscription.
C10_ErrorLeavesSubscriptionActive ==
    /\ [](pc = "raised" =>
            (error # None /\ subscribed_topic_str = SourceTopic /\ unsubscribe_calls = 0))
    /\ [][(pc = "raised" \/ pc = "cleaned") =>
            (processed' = processed /\ consume_calls' = consume_calls
                /\ sinkVars' = sinkVars)]_vars
    /\ [][(pc = "raised" /\ subscribed_topic_str' # subscribed_topic_str) =>
            (pc' = "cleaned" /\ subscribed_topic_str' = None)]_vars

C10_Witness ==
    /\ pc = "raised"
    /\ error \in {"decode", "produce", "fold_function", "writelines"}
    /\ subscribed_topic_str = SourceTopic
    /\ processed >= 1
    /\ position < Len(source)


\* C11 as stated: every record replicate hands to the target's produce is the
\* transform's result for the corresponding consumed record (the consumed record
\* itself when there is no transform): key, value, partition and headers are the
\* result's, and so is the timestamp when keep_timestamps is true; one produce per
\* consumed record.
C11_TransformAppliedToEveryRecord ==
    op = "replicate" =>
        /\ Len(produced) <= Len(source)
        /\ \A i \in 1..Len(produced) :
              LET result == Transformed(Consumed[i]) IN
              /\ produced[i].key = result.key
              /\ produced[i].value = result.value
              /\ produced[i].partition = result.partition
              /\ produced[i].headers = result.headers
              /\ keep_timestamps_bool => produced[i].timestamp = result.timestamp[2]

\* The schema text the source's decode recorded last for the key (key_bool) or the
\* value: that of the last message consumed, once a batch was decoded.
SchemaOfLastConsumed(key_bool) ==
    RegistrySchemaStr(SchemaIdOf(IF key_bool THEN last_consumed_message[1].key[2]
                                 ELSE last_consumed_message[1].value[2]))

\* C15: with a structural format, key_schema and value_schema of every produce
\* call of replicate are the texts the source's decode recorded last for the key
\* and for the value: those of the last message of the batch being replicated.
C15_ProduceWithLastObservedSchema ==
    /\ []((op = "replicate" /\ value_type_str \in StructuralTags
              /\ pc \in {"batch", "batch_end"}) =>
            (/\ last_consumed_message_key_schema_str = SchemaOfLastConsumed(TRUE)
             /\ last_consumed_message_value_schema_str = SchemaOfLastConsumed(FALSE)))
    /\ [][(op = "replicate" /\ value_type_str \in StructuralTags
              /\ Len(produced') > Len(produced)) =>
            (/\ produced'[Len(produced')].key_schema = SchemaOfLastConsumed(TRUE)
             /\ produced'[Len(produced')].value_schema = SchemaOfLastConsumed(FALSE))]_vars

\* Two records of one batch, written with different value schemas and different
\* key schemas, were both produced with the schemas of the second.
C15_Witness ==
    /\ op = "replicate"
    /\ value_type_str \in StructuralTags
    /\ Len(produced) = 2
    /\ Len(message_dict_list) = 2
    /\ position = 2
    /\ SchemaIdOf(source[1].value[2]) # SchemaIdOf(source[2].value[2])
    /\ SchemaIdOf(source[1].key[2]) # SchemaIdOf(source[2].key[2])
    /\ SchemaIdOf(source[2].key[2]) # SchemaIdOf(source[2].value[2])
    /\ produced[1].value_schema = RegistrySchemaStr(SchemaIdOf(source[2].value[2]))
    /\ produced[1].key_schema = RegistrySchemaStr(SchemaIdOf(source[2].key[2]))

\* C19 as stated: with verbose > 0, whenever the count of a run passes a multiple
\* of progress_num_messages in a batch, a report of the new count is printed at
\* the end of that batch.
C19_ProgressAtEveryMultiple ==
    (verbose_int > 0
        /\ \E m \in 1..message_counter_int :
              /\ m % progress_num_messages_int = 0
              /\ prev_counter < m) =>
        (reports # <<>> /\ reports[Len(reports)] = message_counter_int)

\* The first n items of a sequence, and the lists of a sequence of lists put
\* one after the other.
Prefix(seq, n) == SubSeq(seq, 1, n)
RECURSIVE Flatten(_)
Flatten(list_seq) ==
    IF list_seq = <<>> THEN <<>> ELSE Head(list_seq) \o Flatten(Tail(list_seq))

\* C24: when fold has returned, its result is the concatenation, in consumed order,
\* of the lists fold_function returned for the consumed messages; with grep's
\* fold_function it is the consumed messages that match, in order and each once;
\* with foreach's fold_function the function was called once per consumed message
\* in order and the result is empty.
C24_FoldGrepForeachResults ==
    (op = "fold" /\ Returned /\ error = None) =>
        LET consumed == Prefix(Consumed, processed) IN
        /\ acc_list = Flatten([i \in 1..processed |-> FoldResult(consumed[i])])
        /\ fold_function = "grep" => acc_list = SelectSeq(consumed, match_function)
        /\ fold_function = "foreach" => foreach_calls = consumed /\ acc_list = <<>>
        /\ fold_function # "foreach" => foreach_calls = <<>>

C24_Witness ==
    /\ op = "fold" /\ Returned /\ error = None
    /\ fold_function = "grep"
    /\ batch_size_int = 2
    /\ processed = 3
    /\ Len(acc_list) = 2

\* The flushes Cluster.produce made and the ones Cluster.flush made, and the
\* flushes due in n produce calls.
ProduceFlushes == SelectSeq(producer_flushes, LAMBDA e : e[1] = "produce")
ExplicitFlushes == SelectSeq(producer_flushes, LAMBDA e : e[1] = "flush")
FlushesDue(n) ==
    [i \in 1..(n \div flush_num_messages_int) |-> <<"produce", i * flush_num_messages_int>>]

\* C21: produced_messages_int counts the successful produce calls, and produce has
\* flushed the producer exactly at the positive multiples of flush_num_messages_int;
\* replicate calls flush once, after its loop and before it unsubscribes the source;
\* upload calls flush once, after its last line; after a normal return nothing
\* produced is left unflushed.
C21_PeriodicAndFinalFlush ==
    /\ ProduceFlushes = FlushesDue(produced_messages_int)
    /\ (op = "replicate" /\ pc # "idle") =>
          /\ produced_messages_int = Len(produced)
          /\ pc \in {"start", "loop", "batch", "batch_end", "flush"} => ExplicitFlushes = <<>>
          /\ (error = None /\ pc \in {"unsubscribe", "done"}) =>
                ExplicitFlushes = << <<"flush", Len(produced)>> >>
          /\ (error = None /\ unsubscribe_calls > 0) => Len(ExplicitFlushes) = 1
          /\ (error = None /\ Returned) => producer_queue_len = 0
    /\ copy_pc \in {"uploaded", "downloaded"} =>
          /\ produced_messages_int = Len(topic)
          /\ ExplicitFlushes = << <<"flush", Len(topic)>> >>
          /\ producer_queue_len = 0

C21_Witness ==
    /\ op = "replicate" /\ Returned /\ error = None
    /\ flush_num_messages_int = 2
    /\ batch_size_int = 2
    /\ producer_flushes = << <<"produce", 2>>, <<"flush", 3>> >>

\* C25 as stated: with a schema-backed format, every record replicate produces is
\* handed over with the schema texts of its own source message, also when the
\* batch holds messages of different schema ids.
C25_PerRecordSchemaInBatch ==
    (op = "replicate" /\ value_type_str \in StructuralTags) =>
        \A i \in 1..Len(produced) :
            /\ produced[i].key_schema = RegistrySchemaStr(SchemaIdOf(source[i].key[2]))
            /\ produced[i].value_schema = RegistrySchemaStr(SchemaIdOf(source[i].value[2]))

\* C26 as stated: with keep_timestamps, the timestamp of every produce call is the
\* record's own timestamp value or 0, whatever the kind of the timestamp, and the
\* run does not fail because of that kind.
C26_TimestampOfOtherKinds ==
    (op = "replicate" /\ keep_timestamps_bool) =>
        /\ error # "timestamp"
        /\ \A i \in 1..Len(produced) :
              produced[i].timestamp \in {Transformed(Consumed[i]).timestamp[2], 0}

\* C27 as stated: with a budget n >= 0 and a batch size b, a run processes at most
\* n + b - 1 records.
C27_BudgetOvershootBound ==
    num_messages_int # ALL_MESSAGES =>
        processed <= num_messages_int + batch_size_int - 1

\* ---------------------------------------------- claims about the consumer

\* C8: after subscribe with explicit offsets M, the first message a consumer
\* delivers from a partition p named in M is the one at offset M[p], and the first
\* it delivers from a partition M does not name is where the group's committed
\* offset or auto.offset.reset puts it.
C8_ExplicitStartingOffsets ==
    \A p \in TopicPartitions :
        first_consumed[p] # -1 =>
            first_consumed[p] = IF p \in DOMAIN consumer_offsets_dict
                                THEN consumer_offsets_dict[p]
                                ELSE reset_start[p]

LastOfBatch == last_batch[Len(last_batch)]

C20_ConsumeRequiresSubscription ==
    [][(last_consume' # last_consume /\ subscribed_topic_str = None) =>
          (/\ last_consume'[1] = "refused"
           /\ UNCHANGED <<clusterVars, consumerVars, brokerVars>>)]_vars

\* consume was called after unsubscribe, a consumed message still being kept.
C20_Witness ==
    /\ last_consume[1] = "refused"
    /\ subscribed_topic_str = None
    /\ consumer_state = "unsubscribed"
    /\ last_consumed_message # <<>>

\* C28 as stated: the message a commit() passes to the consumer was delivered by
\* that consumer, under the subscription current at the commit; a message kept
\* from an earlier subscription is never committed.
C28_CommittedMessageOfCurrentSubscription ==
    commit_call.made => commit_call.message_by \in {0, commit_call.consumer}

\* The entries subscribe itself writes into the configuration, with the one the
\* Cluster is constructed with.
SubscribeKeys == {"bootstrap.servers", "group.id", "auto.offset.reset", "enable.auto.commit"}

\* C29 as stated: the consumer of a subscribe call is built with no entry of the
\* config argument of an earlier call that its own call did not pass, and its
\* group is never the one watermarks and offsets_for_times write.
C29_ConfigOverridesScopedToOneSubscribe ==
    consumer_id > 0 =>
        /\ DOMAIN consumer_config \subseteq SubscribeKeys \cup DOMAIN subscribe_config
        /\ consumer_config["group.id"] # DummyGroup

Encodable(type_str, value) ==
    \/ type_str = "bytes" /\ TypeOf(value) = "bytes"
    \/ type_str = "str" /\ TypeOf(value) = "str"
    \/ type_str = "json" /\ TypeOf(value) = "dict"

Decoded == decode_call.made
DecodedOk == Decoded /\ decode_call.result[1] = "ok"

\* C13 as stated: for F in {bytes, str, json} and a value (a key) encodable in F,
\* decoding with F the message that produce sent for it with F gives the value
\* (the key) back.
C13_CodecRoundTrip ==
    (Decoded /\ decode_call.from_produce) =>
        /\ (Encodable(produce_call.value_type, produce_call.value)
               /\ produce_call.key_type = "bytes" /\ TypeOf(produce_call.key) = "bytes") =>
              (DecodedOk /\ decode_call.result[2].value = produce_call.value)
        /\ (Encodable(produce_call.key_type, produce_call.key)
               /\ produce_call.value_type = "bytes" /\ TypeOf(produce_call.value) = "bytes") =>
              (DecodedOk /\ decode_call.result[2].key = produce_call.key)

\* C14 as stated: a produce call with a key or value tag outside the known ones
\* ends in an error and hands nothing to the producer, and a decode with such a
\* tag ends in an error and returns no record.
C14_UnknownFormatsFail ==
    /\ (produce_call.made
           /\ (produce_call.key_type \notin KnownTags
                  \/ produce_call.value_type \notin KnownTags)) =>
          produce_call.outcome[1] = "raise"
    /\ (Decoded /\ (decode_call.key_type \notin KnownTags
                       \/ decode_call.value_type \notin KnownTags)) =>
          decode_call.result[1] = "raise"

\* C17 as stated: whatever the payload, a field decoded with format str is a text
\* string or absent, a field decoded with format bytes is the input bytes, and an
\* absent payload decoded as str is absent, without an error.
C17_DecodedTagDeterminedByFormat ==
    /\ DecodedOk =>
          /\ decode_call.value_type = "str" =>
                TypeOf(decode_call.result[2].value) \in {"str", "NoneType"}
          /\ decode_call.key_type = "str" =>
                TypeOf(decode_call.result[2].key) \in {"str", "NoneType"}
          /\ decode_call.value_type = "bytes" =>
                decode_call.result[2].value = decode_call.message.value
          /\ decode_call.key_type = "bytes" =>
                decode_call.result[2].key = decode_call.message.key
    /\ (Decoded /\ decode_call.key_type = "bytes" /\ decode_call.value_type = "str"
           /\ decode_call.message.value = PyNone) =>
          (DecodedOk /\ decode_call.result[2].value = PyNone)

\* C18: a record message_to_message_dict returns has the headers, partition,
\* offset and timestamp of the raw message; its key is what the key format makes
\* of the raw key bytes and its value what the value format makes of the raw
\* value bytes, whatever the other field and the other format are.
C18_EnvelopePassThrough ==
    DecodedOk =>
        LET message == decode_call.message
            record == decode_call.result[2]
        IN
        /\ record.headers = message.headers
        /\ record.partition = message.partition
        /\ record.offset = message.offset
        /\ record.timestamp = message.timestamp
        /\ record.key = DecodeField(decode_call.key_type, message.key)[2]
        /\ record.value = DecodeField(decode_call.value_type, message.value)[2]
        /\ \A other \in RawPayloads, type_str \in FormatTags :
              LET with_value ==
                      message_to_message_dict([message EXCEPT !.value = other],
                                              decode_call.key_type, type_str)
                  with_key ==
                      message_to_message_dict([message EXCEPT !.key = other],
                                              type_str, decode_call.value_type)
              IN
              /\ with_value[1] = "ok" => with_value[2].key = record.key
              /\ with_key[1] = "ok" => with_key[2].value = record.value

\* A message with headers, on partition 1, whose key was decoded as text and whose
\* value, other bytes, as JSON.
C18_Witness ==
    /\ DecodedOk
    /\ decode_call.key_type = "str"
    /\ decode_call.value_type = "json"
    /\ decode_call.message.headers # None
    /\ decode_call.message.partition = 1
    /\ decode_call.result[2].key = PyStr(<<"a">>)
    /\ decode_call.result[2].value = PyDict(<<<<"a", 1>>>>)

\* ------------------------------------------------- claims about the copy

\* The records of a file in which every record is followed by the message
\* separator; <<<<>>>> stands for a file that is not of that form.
Records(char_seq) ==
    LET pieces == Split(char_seq, MessageSeparator) IN
    IF pieces[Len(pieces)] = <<>> THEN SubSeq(pieces, 1, Len(pieces) - 1)
    ELSE <<<<>>>>

\* The premise of C12: the records are non-empty and, when a key/value separator
\* is used, each contains it exactly once.
WellFormed ==
    \A i \in 1..Len(Records(file_str)) :
        /\ Records(file_str)[i] # <<>>
        /\ key_value_separator_str # None =>
              Len(Split(Records(file_str)[i], key_value_separator_str)) = 2

\* C12 as stated: a file of non-empty records, each followed by the message
\* separator and each with exactly one key/value separator (or a value-only file
\* copied without one), uploaded to an empty topic and downloaded with the same
\* types and separators, is written back identical.
C12_UploadDownloadRoundTrip ==
    (copy_pc = "downloaded" /\ WellFormed) => downloaded_str = file_str

\* The places of the key/value separator in a record, and the produce call the
\* rule of C23 gives for a record that is not blank.
SeparatorPlaces(record) ==
    {i \in 1..Len(record) : record[i] = key_value_separator_str}
SplitRule(record) ==
    LET stripped == strip(record)
        places == SeparatorPlaces(stripped)
    IN
    IF key_value_separator_str # None /\ Cardinality(places) = 1
    THEN LET place == CHOOSE i \in places : TRUE IN
         [key   |-> PyStr(SubSeq(stripped, 1, place - 1)),
          value |-> PyStr(SubSeq(stripped, place + 1, Len(stripped)))]
    ELSE [key |-> PyNone, value |-> PyStr(stripped)]
Blank(record) == \A i \in 1..Len(record) : record[i] \in Whitespace

\* C23: after upload the topic holds, in order, one message per record of the
\* file that is not blank and none for a blank one; the message of a record with
\* exactly one key/value separator has the part before it as key and the part
\* after it as value, every other one has no key and the stripped record as
\* value, and without a separator no message has a key.
C23_UploadKeyValueSplitRule ==
    copy_pc \in {"uploaded", "downloaded"} =>
        LET record_list == SelectSeq(foreach_line(file_str, <<MessageSeparator>>, DefaultBufsize),
                                    LAMBDA r : ~Blank(r))
            calls == [i \in 1..Len(record_list) |-> SplitRule(record_list[i])]
        IN
        /\ topic = [i \in 1..Len(calls) |-> UploadedMessage(calls, i)]
        /\ key_value_separator_str = None =>
               \A i \in 1..Len(topic) : topic[i].key = Delivered(serialize("str", PyNone))

C23_Witness ==
    /\ copy_pc = "uploaded"
    /\ key_value_separator_str = "/"
    /\ file_str = <<"a", "/", " ", "\n", "/", "/">>
    /\ Len(topic) = 2
    /\ topic[1].key # topic[2].key

\* C22: whatever the buffer size, foreach_line passes to proc_function the pieces
\* of the whole text split at the delimiter, in order, the last piece only when it
\* is not empty.
C22_ForeachLineIndependentOfBufsize ==
    foreach_line_call.made =>
        LET pieces == str_split(file_str, delimiter_str)
            final == pieces[Len(pieces)]
        IN foreach_line_call.lines =
               SubSeq(pieces, 1, Len(pieces) - 1)
                   \o (IF final # <<>> THEN <<final>> ELSE <<>>)

\* A delimiter of two characters read one character at a time.
C22_Witness ==
    /\ foreach_line_call.made
    /\ bufsize_int = 1
    /\ delimiter_str = <<"a", "b">>
    /\ file_str = <<"b", "a", "b", "a", "a", "b">>
    /\ foreach_line_call.lines = << <<"b">>, <<"a">> >>

=============================================================================
